---- MODULE Spec2Model ----
(***************************************************************************)
(* A model of the LZ77 prefix-match engine of src/lz77.go (type LZ77, the  *)
(* two-array hash-chain variant, lines 1-882).                             *)
(*                                                                         *)
(* The engine is one record, lz77, with the fields of the Go struct.  Each *)
(* Go method is an operator from a record (and arguments) to the record    *)
(* after the call (and the returned values); each public method is one     *)
(* action of the state machine.                                            *)
(*                                                                         *)
(* uint32 values are kept in two's-complement form: an integer n >= 0      *)
(* stands for itself and an integer n < 0 stands for the uint32 value      *)
(* 2^32 + n.  Sums and differences of the small values of the model are    *)
(* then the plain integer sums and differences, and the unsigned order is  *)
(* Lt32.  ([0, 2^31) precedes the wrapped values.)                         *)
(***************************************************************************)
EXTENDS Integers, Sequences, FiniteSets, TLC

hashLen == 4
hashLenSubOne == 3

\* ---------------------------------------------------------------- bounds
\* Bytes the writer may produce.
Alphabet == {97, 98}
\* Longest argument of one Write call.
MaxWriteLen == 2
\* Bytes accepted since Init/Clear before the writer stops (Spec).
MaxWritten == 6
\* The same for the writer of SpecWA.
MaxWrittenWA == 9
\* The same for the writer of SpecWords.
MaxWrittenWords == 17
\* Largest length argument of Read, PrepareBulkRead and PrepareBulkWrite.
MaxReq == 4

\* ------------------------------------------------------- uint32 helpers
Sub32(a, b) == a - b
Add32(a, b) == a + b
Lt32(a, b) ==
    IF a >= 0
    THEN (b < 0) \/ (a < b)
    ELSE (b < 0) /\ (a < b)
Le32(a, b) == ~Lt32(b, a)

Min(a, b) == IF a <= b THEN a ELSE b

\* Go slice expression s[lo:hi] of a byte array held as a function on 0..n-1.
SubSlice(s, lo, hi) == [k \in 1..(hi - lo) |-> s[lo + k - 1]]

\* --------------------------------------------------------------- hash4
\* 32-bit words inside hash4 are bit vectors, bit 0 the least significant.
c1 == <<81, 45, 158, 204>>      \* 0xcc9e2d51, least significant byte first
c2 == <<147, 53, 135, 27>>      \* 0x1b873593, least significant byte first

\* u32 * c modulo 2^32, on bytes (least significant first), as a bit vector.
Mul32(u, c) ==
    LET t0 == u[1] * c[1]
        t1 == u[1] * c[2] + u[2] * c[1] + (t0 \div 256)
        t2 == u[1] * c[3] + u[2] * c[2] + u[3] * c[1] + (t1 \div 256)
        t3 == u[1] * c[4] + u[2] * c[3] + u[3] * c[2] + u[4] * c[1] + (t2 \div 256)
        w  == <<t0 % 256, t1 % 256, t2 % 256, t3 % 256>>
    IN  [n \in 0..31 |-> (w[(n \div 8) + 1] \div (2 ^ (n % 8))) % 2]

rotate32(x, shift) == [n \in 0..31 |-> x[(n + 32 - shift) % 32]]

RECURSIVE XorAnd(_, _, _, _)
\* (x XOR y) AND mask, from bit n upwards; mask is below 2^31 in the model.
XorAnd(x, y, mask, n) ==
    IF n > 30 \/ 2 ^ n > mask THEN 0
    ELSE (IF (mask \div (2 ^ n)) % 2 = 1
          THEN ((x[n] + y[n]) % 2) * (2 ^ n) ELSE 0)
         + XorAnd(x, y, mask, n + 1)

\* slice is a sequence of (at least) 4 bytes, slice[1] the first.
hash4(slice, hashMask) ==
    LET u32 == <<slice[4], slice[3], slice[2], slice[1]>>
    IN  XorAnd(rotate32(Mul32(u32, c1), 17), rotate32(Mul32(u32, c2), 19), hashMask, 0)

\* ---------------------------------------------------------------- Init
Nil == <<>>

Opt(bb, wb, hb, minL, hasMin, maxL, hasMax, maxD, hasDist) ==
    [BufferNumBits |-> bb, WindowNumBits |-> wb, HashNumBits |-> hb,
     MinMatchLength |-> minL, MaxMatchLength |-> maxL, MaxMatchDistance |-> maxD,
     HasMinMatchLength |-> hasMin, HasMaxMatchLength |-> hasMax,
     HasMaxMatchDistance |-> hasDist]

\* Mutant of InitValues: the three normalisation steps exclude one another
\* (an else-if chain), so a minLen raised from 0 to 1 keeps its hash bits.
InitValuesElseIf(o) ==
    LET bsize   == 2 ^ o.BufferNumBits
        wsize   == 2 ^ o.WindowNumBits
        maxLen0 == IF o.HasMaxMatchLength THEN Min(o.MaxMatchLength, bsize) ELSE bsize
        minLen0 == IF o.HasMinMatchLength THEN o.MinMatchLength ELSE hashLen
        maxDist0 == IF o.HasMaxMatchDistance THEN Min(o.MaxMatchDistance, wsize) ELSE wsize
        lit     == (maxLen0 = 0 \/ maxDist0 = 0)
    IN  [bsize |-> bsize, wsize |-> wsize,
         minLen |-> IF lit THEN 0 ELSE IF minLen0 = 0 THEN 1 ELSE minLen0,
         maxLen |-> IF lit THEN 0 ELSE maxLen0,
         maxDist |-> IF lit THEN 0 ELSE maxDist0,
         hbits |-> IF lit THEN 0
                   ELSE IF minLen0 = 0 THEN o.HashNumBits
                   ELSE IF minLen0 < hashLen THEN 0 ELSE o.HashNumBits]

\* Mutant of InitValues: the hash bits are kept when minLen is below hashLen.
InitValuesKeepHash(o) ==
    LET bsize   == 2 ^ o.BufferNumBits
        wsize   == 2 ^ o.WindowNumBits
        maxLen0 == IF o.HasMaxMatchLength THEN Min(o.MaxMatchLength, bsize) ELSE bsize
        minLen0 == IF o.HasMinMatchLength THEN o.MinMatchLength ELSE hashLen
        maxDist0 == IF o.HasMaxMatchDistance THEN Min(o.MaxMatchDistance, wsize) ELSE wsize
        lit     == (maxLen0 = 0 \/ maxDist0 = 0)
        minLen1 == IF lit THEN 0 ELSE minLen0
        maxLen  == IF lit THEN 0 ELSE maxLen0
        maxDist == IF lit THEN 0 ELSE maxDist0
        hbits1  == IF lit THEN 0 ELSE o.HashNumBits
        minLen  == IF minLen1 = 0 /\ maxLen # 0 THEN 1 ELSE minLen1
    IN  [bsize |-> bsize, wsize |-> wsize, minLen |-> minLen, maxLen |-> maxLen,
         maxDist |-> maxDist, hbits |-> hbits1]

\* The values Init computes from the options, before its last assertion.
InitValues(o) ==
    LET bsize   == 2 ^ o.BufferNumBits
        wsize   == 2 ^ o.WindowNumBits
        maxLen0 == IF o.HasMaxMatchLength THEN Min(o.MaxMatchLength, bsize) ELSE bsize
        minLen0 == IF o.HasMinMatchLength THEN o.MinMatchLength ELSE hashLen
        maxDist0 == IF o.HasMaxMatchDistance THEN Min(o.MaxMatchDistance, wsize) ELSE wsize
        lit     == (maxLen0 = 0 \/ maxDist0 = 0)
        minLen1 == IF lit THEN 0 ELSE minLen0
        maxLen  == IF lit THEN 0 ELSE maxLen0
        maxDist == IF lit THEN 0 ELSE maxDist0
        hbits1  == IF lit THEN 0 ELSE o.HashNumBits
        minLen  == IF minLen1 = 0 /\ maxLen # 0 THEN 1 ELSE minLen1
        hbits   == IF minLen < hashLen THEN 0 ELSE hbits1
    IN  [bsize |-> bsize, wsize |-> wsize, minLen |-> minLen, maxLen |-> maxLen,
         maxDist |-> maxDist, hbits |-> hbits]

\* The assertions of Init all pass.
InitOK(o) ==
    /\ o.BufferNumBits >= 2
    /\ o.BufferNumBits <= 30
    /\ o.WindowNumBits <= 30
    /\ o.HashNumBits <= 32
    /\ o.HasMinMatchLength => o.MinMatchLength <= 2 ^ o.BufferNumBits
    /\ InitValues(o).minLen <= InitValues(o).maxLen

InitLZ77(o) ==
    LET v == InitValues(o)
        n == v.wsize + v.bsize * 2
    IN  [slice         |-> [k \in 0..(n - 1) |-> 0],
         htLastByHash  |-> IF v.hbits # 0 THEN [k \in 0..(2 ^ v.hbits - 1) |-> 0] ELSE Nil,
         htPrevByIndex |-> IF v.hbits # 0 THEN [k \in 0..(n - 1) |-> 0] ELSE Nil,
         h        |-> v.wsize,
         i        |-> v.wsize,
         j        |-> v.wsize,
         bsize    |-> v.bsize,
         wsize    |-> v.wsize,
         hashMask |-> 2 ^ v.hbits - 1,
         minLen   |-> v.minLen,
         maxLen   |-> v.maxLen,
         maxDist  |-> v.maxDist,
         bbits    |-> o.BufferNumBits,
         wbits    |-> o.WindowNumBits,
         hbits    |-> v.hbits]

len(lz) == lz.wsize + lz.bsize * 2

\* ------------------------------------------------- hash index and shift
RECURSIVE windowUpdateLoop(_, _, _)
\* The for loop of windowUpdateRegion.
windowUpdateLoop(lz, index, end) ==
    IF ~Lt32(index, end) THEN lz
    ELSE LET hash        == hash4(SubSlice(lz.slice, index, index + hashLen), lz.hashMask)
             prevPlusOne == lz.htLastByHash[hash]
             indexPlusOne == index + 1
         IN  windowUpdateLoop(
                 [lz EXCEPT !.htLastByHash[hash] = indexPlusOne,
                            !.htPrevByIndex[index] = prevPlusOne],
                 index + 1, end)

windowUpdateRegion(lz, index) ==
    IF lz.htLastByHash = Nil THEN lz
    ELSE LET index1 == IF Lt32(index, lz.h) THEN lz.h ELSE index
             end0   == Sub32(lz.j, hashLenSubOne)
             end    == IF Lt32(lz.i, end0) THEN lz.i ELSE end0
         IN  windowUpdateLoop(lz, index1, end)

\* The relocation of htPrevByIndex in shift: the entry of each new index is
\* computed from the entry found at that same index before the shift.
shiftPrevByIndex(lz, hPrime, iPrime, delta) ==
    [index \in DOMAIN lz.htPrevByIndex |->
        IF index < hPrime THEN 0
        ELSE IF index < iPrime
        THEN LET prevPlusOne == lz.htPrevByIndex[index]
             IN  IF prevPlusOne > lz.h /\ prevPlusOne <= lz.i
                 THEN prevPlusOne - delta ELSE 0
        ELSE 0]

shiftLastByHash(lz, delta) ==
    [hash \in DOMAIN lz.htLastByHash |->
        LET lastPlusOne == lz.htLastByHash[hash]
        IN  IF lastPlusOne > lz.h /\ lastPlusOne <= lz.i
            THEN lastPlusOne - delta ELSE 0]

\* Mutant of shiftBytes: the copy takes its bytes from one position too early.
shiftBytesOff(lz, hPrime, jPrime, delta) ==
    [k \in DOMAIN lz.slice |->
        IF k < hPrime THEN 0
        ELSE IF k < jPrime THEN lz.slice[k + delta - 1]
        ELSE 0]

\* copy(slice[hPrime:jPrime], slice[h:j]) and the two bzero calls of shift.
shiftBytes(lz, hPrime, jPrime, delta) ==
    [k \in DOMAIN lz.slice |->
        IF k < hPrime THEN 0
        ELSE IF k < jPrime THEN lz.slice[k + delta]
        ELSE 0]

\* Mutant of shiftNeeded: the contents also move when the write ends exactly
\* at the end of the region.
shiftNeededEarly(lz, n) == Add32(lz.j, n) >= len(lz)

\* TRUE iff shift(n) moves the contents (k > len(slice)).
shiftNeeded(lz, n) == Add32(lz.j, n) > len(lz)

\* Mutant of shift: the contents are moved one byte too low (iPrime is
\* wsize - 1).
shiftLow(lz, n) ==
    IF ~shiftNeeded(lz, n) THEN lz
    ELSE LET windowLen == lz.i - lz.h
             bufferLen == lz.j - lz.i
             iPrime == lz.wsize - 1
             hPrime == Sub32(iPrime, windowLen)
             jPrime == iPrime + bufferLen
             delta  == Sub32(lz.h, hPrime)
             lz1    == [lz EXCEPT !.slice = shiftBytes(lz, hPrime, jPrime, delta),
                                  !.h = hPrime, !.i = iPrime, !.j = jPrime]
         IN  IF lz.htLastByHash = Nil THEN lz1
             ELSE [lz1 EXCEPT !.htLastByHash = shiftLastByHash(lz, delta),
                              !.htPrevByIndex = shiftPrevByIndex(lz, hPrime, iPrime, delta)]

shift(lz, n) ==
    IF ~shiftNeeded(lz, n) THEN lz
    ELSE LET windowLen == lz.i - lz.h
             bufferLen == lz.j - lz.i
             iPrime == lz.wsize
             hPrime == Sub32(iPrime, windowLen)
             jPrime == iPrime + bufferLen
             delta  == Sub32(lz.h, hPrime)
             lz1    == [lz EXCEPT !.slice = shiftBytes(lz, hPrime, jPrime, delta),
                                  !.h = hPrime, !.i = iPrime, !.j = jPrime]
         IN  IF lz.htLastByHash = Nil THEN lz1
             ELSE [lz1 EXCEPT !.htLastByHash = shiftLastByHash(lz, delta),
                              !.htPrevByIndex = shiftPrevByIndex(lz, hPrime, iPrime, delta)]

\* Mutant of slideWindow: the window start never moves.
slideWindowNone(lz, iPrime) == lz.h

\* Mutant of slideWindow: the window is cut one byte shorter than maxDist.
slideWindowShort(lz, iPrime) ==
    LET hMin == IF lz.maxDist > 0 THEN Sub32(iPrime, lz.maxDist - 1) ELSE iPrime
    IN  IF Lt32(lz.h, hMin) THEN hMin ELSE lz.h

\* The new window start computed by every consuming method:
\* hPrime := h; if hMin := iPrime - maxDist; hPrime < hMin { hPrime = hMin }.
slideWindow(lz, iPrime) ==
    LET hMin == Sub32(iPrime, lz.maxDist)
    IN  IF Lt32(lz.h, hMin) THEN hMin ELSE lz.h

\* ------------------------------------------------------- state methods
\* Mutant of Clear: the region bytes are not zeroed.
ClearKeepBytes(lz) ==
    [lz EXCEPT !.h = lz.wsize, !.i = lz.wsize, !.j = lz.wsize,
               !.htLastByHash = [k \in DOMAIN lz.htLastByHash |-> 0],
               !.htPrevByIndex = [k \in DOMAIN lz.htPrevByIndex |-> 0]]

Clear(lz) ==
    [lz EXCEPT !.h = lz.wsize, !.i = lz.wsize, !.j = lz.wsize,
               !.slice = [k \in DOMAIN lz.slice |-> 0],
               !.htLastByHash = [k \in DOMAIN lz.htLastByHash |-> 0],
               !.htPrevByIndex = [k \in DOMAIN lz.htPrevByIndex |-> 0]]

\* Mutant of WindowClear: the whole region is zeroed, buffered bytes included.
WindowClearAll(lz) ==
    [lz EXCEPT !.h = lz.i,
               !.slice = [k \in DOMAIN lz.slice |-> 0],
               !.htLastByHash = [k \in DOMAIN lz.htLastByHash |-> 0],
               !.htPrevByIndex = [k \in DOMAIN lz.htPrevByIndex |-> 0]]

WindowClear(lz) ==
    [lz EXCEPT !.h = lz.i,
               !.slice = [k \in DOMAIN lz.slice |-> IF k < lz.i THEN 0 ELSE lz.slice[k]],
               !.htLastByHash = [k \in DOMAIN lz.htLastByHash |-> 0],
               !.htPrevByIndex = [k \in DOMAIN lz.htPrevByIndex |-> 0]]

\* Mutant of SetWindow: data longer than maxDist loses its tail, not its head.
SetWindowKeepFirst(lz, data) ==
    LET length == Min(Len(data), lz.maxDist)
        kept   == SubSeq(data, 1, length)
        i      == lz.i
        h      == Sub32(i, length)
        lz1    == [lz EXCEPT !.h = h,
                      !.slice = [k \in DOMAIN lz.slice |->
                                    IF k < h THEN 0
                                    ELSE IF k < i THEN kept[k - h + 1]
                                    ELSE lz.slice[k]],
                      !.htLastByHash = [k \in DOMAIN lz.htLastByHash |-> 0],
                      !.htPrevByIndex = [k \in DOMAIN lz.htPrevByIndex |-> 0]]
    IN  windowUpdateRegion(lz1, h)

SetWindow(lz, data) ==
    LET length == Min(Len(data), lz.maxDist)
        kept   == SubSeq(data, Len(data) - length + 1, Len(data))
        i      == lz.i
        h      == Sub32(i, length)
        lz1    == [lz EXCEPT !.h = h,
                      !.slice = [k \in DOMAIN lz.slice |->
                                    IF k < h THEN 0
                                    ELSE IF k < i THEN kept[k - h + 1]
                                    ELSE lz.slice[k]],
                      !.htLastByHash = [k \in DOMAIN lz.htLastByHash |-> 0],
                      !.htPrevByIndex = [k \in DOMAIN lz.htPrevByIndex |-> 0]]
    IN  windowUpdateRegion(lz1, h)

WindowBytesView(lz) == SubSlice(lz.slice, lz.h, lz.i)
BufferBytesView(lz) == SubSlice(lz.slice, lz.i, lz.j)
Len77(lz) == lz.j - lz.i

\* ------------------------------------------------------------- Advance
NoBest == [bestFound |-> FALSE, bestDistance |-> 0, bestLength |-> 0]

RECURSIVE checkMatchLoop(_, _, _, _, _)
\* The for loop of advanceCheckMatch.
checkMatchLoop(lz, curr, maxLen, index, best) ==
    IF ~(index < maxLen /\ lz.slice[curr + index] = lz.slice[lz.i + index]) THEN best
    ELSE LET lenSoFar == index + 1
             best1 == IF lenSoFar >= lz.minLen /\ (~best.bestFound \/ lenSoFar > best.bestLength)
                      THEN [bestFound |-> TRUE, bestDistance |-> lz.i - curr,
                            bestLength |-> lenSoFar]
                      ELSE best
         IN  checkMatchLoop(lz, curr, maxLen, index + 1, best1)

\* Mutant of advanceCheckMatch: the comparison starts after the bytes the best
\* match so far already covers, instead of at the candidate's first byte.
advanceCheckMatchSkipPrefix(lz, curr, maxLen, best) ==
    IF best.bestFound
       /\ lz.slice[curr + best.bestLength] # lz.slice[lz.i + best.bestLength]
    THEN [best |-> best, stop |-> FALSE]
    ELSE LET best1 == checkMatchLoop(lz, curr, maxLen,
                                     IF best.bestFound THEN best.bestLength ELSE 0, best)
         IN  [best |-> best1, stop |-> best1.bestFound /\ best1.bestLength >= maxLen]

\* Returns the updated best match and the boolean result (stop).
advanceCheckMatch(lz, curr, maxLen, best) ==
    IF best.bestFound
       /\ lz.slice[curr + best.bestLength] # lz.slice[lz.i + best.bestLength]
    THEN [best |-> best, stop |-> FALSE]
    ELSE LET best1 == checkMatchLoop(lz, curr, maxLen, 0, best)
         IN  [best |-> best1, stop |-> best1.bestFound /\ best1.bestLength >= maxLen]

RECURSIVE noHashLoop(_, _, _, _)
\* for curr > h { curr--; if advanceCheckMatch(...) { break } }
noHashLoop(lz, curr, maxLen, best) ==
    IF ~(curr > lz.h) THEN best
    ELSE LET r == advanceCheckMatch(lz, curr - 1, maxLen, best)
         IN  IF r.stop THEN r.best ELSE noHashLoop(lz, curr - 1, maxLen, r.best)

RECURSIVE standardLoop(_, _, _, _, _)
\* for currPlusOne > h && currPlusOne < lastPlusOne { ... }
standardLoop(lz, currPlusOne, lastPlusOne, maxLen, best) ==
    IF ~(currPlusOne > lz.h /\ currPlusOne < lastPlusOne) THEN best
    ELSE LET curr == currPlusOne - 1
             r    == advanceCheckMatch(lz, curr, maxLen, best)
         IN  IF r.stop THEN r.best
             ELSE standardLoop(lz, lz.htPrevByIndex[curr], currPlusOne, maxLen, r.best)

\* Mutant of NoAdvance: the call on an empty buffer drops the window.
NoAdvanceDropWindow(lz) ==
    [lz |-> [lz EXCEPT !.h = lz.i], buf |-> <<>>,
     matchDistance |-> 0, matchLength |-> 0, matchFound |-> FALSE]

NoAdvance(lz) ==
    [lz |-> lz, buf |-> <<>>, matchDistance |-> 0, matchLength |-> 0, matchFound |-> FALSE]

\* Mutant of advanceFinish: a match consumes one byte fewer than its length.
advanceFinishShort(lz, best) ==
    LET i      == lz.i
        iPrime == IF best.bestFound /\ best.bestLength > 1
                  THEN i + best.bestLength - 1 ELSE i + 1
        hPrime == slideWindow(lz, iPrime)
    IN  [lz  |-> windowUpdateRegion([lz EXCEPT !.h = hPrime, !.i = iPrime], i),
         buf |-> SubSlice(lz.slice, i, iPrime),
         matchDistance |-> IF best.bestFound THEN best.bestDistance ELSE 0,
         matchLength   |-> IF best.bestFound THEN best.bestLength ELSE 0,
         matchFound    |-> best.bestFound]

\* The common tail of advanceNoHash and advanceStandard.
advanceFinish(lz, best) ==
    LET i      == lz.i
        iPrime == IF best.bestFound THEN i + best.bestLength ELSE i + 1
        hPrime == slideWindow(lz, iPrime)
    IN  [lz  |-> windowUpdateRegion([lz EXCEPT !.h = hPrime, !.i = iPrime], i),
         buf |-> SubSlice(lz.slice, i, iPrime),
         matchDistance |-> IF best.bestFound THEN best.bestDistance ELSE 0,
         matchLength   |-> IF best.bestFound THEN best.bestLength ELSE 0,
         matchFound    |-> best.bestFound]

\* Mutant of advanceByte: the window start is left where it was.
advanceByteKeepStart(lz) ==
    LET i == lz.i
        iPrime == i + 1
    IN  IF iPrime > lz.j THEN NoAdvance(lz)
        ELSE [lz  |-> windowUpdateRegion([lz EXCEPT !.i = iPrime], i),
              buf |-> SubSlice(lz.slice, i, iPrime),
              matchDistance |-> 0, matchLength |-> 0, matchFound |-> FALSE]

advanceByte(lz) ==
    LET i == lz.i
        iPrime == i + 1
    IN  IF iPrime > lz.j THEN NoAdvance(lz)
        ELSE [lz  |-> windowUpdateRegion([lz EXCEPT !.h = slideWindow(lz, iPrime),
                                                    !.i = iPrime], i),
              buf |-> SubSlice(lz.slice, i, iPrime),
              matchDistance |-> 0, matchLength |-> 0, matchFound |-> FALSE]

advanceNoHash(lz) ==
    IF lz.i + 1 > lz.j THEN NoAdvance(lz)
    ELSE LET maxLen == Min(lz.maxLen, lz.j - lz.i)
             best   == IF lz.minLen <= maxLen
                       THEN noHashLoop(lz, lz.i, maxLen, NoBest)
                       ELSE NoBest
         IN  advanceFinish(lz, best)

advanceStandard(lz) ==
    IF lz.i + 1 > lz.j THEN NoAdvance(lz)
    ELSE LET maxLen == Min(lz.maxLen, lz.j - lz.i)
             best   == IF lz.minLen <= maxLen
                       THEN LET hash == hash4(SubSlice(lz.slice, lz.i, lz.i + hashLen),
                                              lz.hashMask)
                            IN  standardLoop(lz, lz.htLastByHash[hash], lz.i + 1,
                                             maxLen, NoBest)
                       ELSE NoBest
         IN  advanceFinish(lz, best)

\* The assertions at the top of Advance.
AdvanceIndexAsserts(lz) ==
    /\ lz.h <= lz.i
    /\ lz.i <= lz.j
    /\ lz.j <= len(lz)

Advance(lz) ==
    IF lz.maxLen = 0 THEN advanceByte(lz)
    ELSE IF lz.hbits = 0 THEN advanceNoHash(lz)
    ELSE advanceStandard(lz)

\* ------------------------------------------------------ write and read
\* Go's copy(slice[j:jPrime], data).
copyInto(slice, j, data) ==
    [k \in DOMAIN slice |-> IF k >= j /\ k < j + Len(data) THEN data[k - j + 1] ELSE slice[k]]

\* bsize - (j - i), the free space of the buffer.
free(lz) == lz.bsize - (lz.j - lz.i)

PrepareBulkWrite(lz, length) ==
    LET length1 == Min(length, free(lz))
        lz1     == shift(lz, length1)
    IN  [lz |-> lz1, j |-> lz1.j, jPrime |-> lz1.j + length1]

\* The assertion of CommitBulkWrite.
CommitBulkWriteAssert(lz, length) == length <= free(lz)

\* Mutant of CommitBulkWrite: the update of the hash tables starts one
\* position too early, at a position that may be in a chain already.
CommitBulkWriteReindex(lz, length) ==
    LET j == lz.j
    IN  windowUpdateRegion([lz EXCEPT !.j = j + length], Sub32(j, hashLen))

CommitBulkWrite(lz, length) ==
    LET j == lz.j
    IN  windowUpdateRegion([lz EXCEPT !.j = j + length], Sub32(j, hashLenSubOne))

\* Mutant of WriteByte: ErrFull is returned one byte early.
WriteByteEarlyFull(lz, ch) ==
    IF free(lz) <= 1 THEN [lz |-> lz, err |-> "ErrFull"]
    ELSE LET lz1 == shift(lz, 1)
             j   == lz1.j
             lz2 == [lz1 EXCEPT !.slice[j] = ch, !.j = j + 1]
         IN  [lz |-> windowUpdateRegion(lz2, Sub32(j, hashLenSubOne)), err |-> "nil"]

WriteByte(lz, ch) ==
    IF free(lz) = 0 THEN [lz |-> lz, err |-> "ErrFull"]
    ELSE LET lz1 == shift(lz, 1)
             j   == lz1.j
             lz2 == [lz1 EXCEPT !.slice[j] = ch, !.j = j + 1]
         IN  [lz |-> windowUpdateRegion(lz2, Sub32(j, hashLenSubOne)), err |-> "nil"]

\* Mutant of Write: ErrFull is returned only when no byte was stored.
WriteFullOnlyWhenEmpty(lz, data) ==
    LET y      == free(lz)
        length == Min(Len(data), y)
        err    == IF Len(data) > y /\ length = 0 THEN "ErrFull" ELSE "nil"
        data1  == SubSeq(data, 1, length)
        lz1    == shift(lz, length)
        j      == lz1.j
        jPrime == j + length
        lz2    == [lz1 EXCEPT !.slice = copyInto(lz1.slice, j, data1), !.j = jPrime]
    IN  [lz |-> windowUpdateRegion(lz2, Sub32(j, hashLenSubOne)), n |-> length, err |-> err]

Write(lz, data) ==
    LET y      == free(lz)
        length == Min(Len(data), y)
        err    == IF Len(data) > y THEN "ErrFull" ELSE "nil"
        data1  == SubSeq(data, 1, length)
        lz1    == shift(lz, length)
        j      == lz1.j
        jPrime == j + length
        lz2    == [lz1 EXCEPT !.slice = copyInto(lz1.slice, j, data1), !.j = jPrime]
    IN  [lz |-> windowUpdateRegion(lz2, Sub32(j, hashLenSubOne)), n |-> length, err |-> err]

PrepareBulkRead(lz, length) ==
    LET length1 == Min(length, lz.bsize)
        iPrime  == Min(lz.i + length1, lz.j)
    IN  SubSlice(lz.slice, lz.i, iPrime)

\* The assertion of CommitBulkRead (length already clamped to bsize).
CommitBulkReadAssert(lz, length) == lz.i + Min(length, lz.bsize) <= lz.j

\* Mutant of CommitBulkRead: the bytes read are dropped and the window with
\* them, instead of joining the window.
CommitBulkReadRetire(lz, length) ==
    LET i      == lz.i
        iPrime == i + Min(length, lz.bsize)
    IN  windowUpdateRegion([lz EXCEPT !.h = iPrime, !.i = iPrime], i)

CommitBulkRead(lz, length) ==
    LET i      == lz.i
        iPrime == i + Min(length, lz.bsize)
    IN  windowUpdateRegion([lz EXCEPT !.h = slideWindow(lz, iPrime), !.i = iPrime], i)

\* Mutant of ReadByte: the last buffered byte is never handed out.
ReadByteKeepLast(lz) ==
    LET i      == lz.i
        iPrime == i + 1
    IN  IF iPrime >= lz.j THEN [lz |-> lz, ch |-> 0, err |-> "ErrEmpty"]
        ELSE [lz  |-> windowUpdateRegion([lz EXCEPT !.h = slideWindow(lz, iPrime),
                                                    !.i = iPrime], i),
              ch  |-> lz.slice[i], err |-> "nil"]

ReadByte(lz) ==
    LET i      == lz.i
        iPrime == i + 1
    IN  IF iPrime > lz.j THEN [lz |-> lz, ch |-> 0, err |-> "ErrEmpty"]
        ELSE [lz  |-> windowUpdateRegion([lz EXCEPT !.h = slideWindow(lz, iPrime),
                                                    !.i = iPrime], i),
              ch  |-> lz.slice[i], err |-> "nil"]

\* Mutant of Read: the bytes read enter the window but not the hash tables.
ReadNoIndex(lz, length) ==
    IF length = 0 THEN [lz |-> lz, n |-> 0, data |-> <<>>, err |-> "nil"]
    ELSE LET i      == lz.i
             iPrime == Min(i + Min(length, lz.bsize), lz.j)
         IN  IF iPrime = i THEN [lz |-> lz, n |-> 0, data |-> <<>>, err |-> "ErrEmpty"]
             ELSE [lz   |-> [lz EXCEPT !.h = slideWindow(lz, iPrime), !.i = iPrime],
                   n    |-> iPrime - i,
                   data |-> SubSlice(lz.slice, i, iPrime),
                   err  |-> "nil"]

\* length is len(data) of the destination; the result holds the bytes copied.
Read(lz, length) ==
    IF length = 0 THEN [lz |-> lz, n |-> 0, data |-> <<>>, err |-> "nil"]
    ELSE LET i      == lz.i
             iPrime == Min(i + Min(length, lz.bsize), lz.j)
         IN  IF iPrime = i THEN [lz |-> lz, n |-> 0, data |-> <<>>, err |-> "ErrEmpty"]
             ELSE [lz   |-> windowUpdateRegion([lz EXCEPT !.h = slideWindow(lz, iPrime),
                                                          !.i = iPrime], i),
                   n    |-> iPrime - i,
                   data |-> SubSlice(lz.slice, i, iPrime),
                   err  |-> "nil"]

\* ------------------------------------------------ Buffer (src/buffer.go)
\* The ring buffer: one record with the fields of the Go struct; slice is a
\* function on 0..Cap-1.  uint values are integers, and a uint difference
\* that wraps below zero is kept as the negative integer: as a slice bound
\* it is out of range.  Each method returns the Buffer after the call, its
\* results, and panic (a slice expression out of range or a failed
\* assertion; the Buffer is then as it was when the panic was raised).
Buffer_Init(numBits) ==
    LET size == 2 ^ numBits
    IN  [slice |-> [k \in 0..(size - 1) |-> 0], mask |-> size - 1,
         a |-> 0, b |-> 0, busy |-> FALSE, nbits |-> numBits]

Buffer_Cap(buf) == Cardinality(DOMAIN buf.slice)

Buffer_Len(buf) ==
    LET a == buf.a
        b == IF buf.busy /\ buf.a >= buf.b THEN buf.b + Buffer_Cap(buf) ELSE buf.b
    IN  b - a

Buffer_IsEmpty(buf) == ~buf.busy

Buffer_IsFull(buf) == buf.busy /\ buf.a = buf.b

Buffer_Clear(buf) == [buf EXCEPT !.a = 0, !.b = 0, !.busy = FALSE]

\* Go's copy(dst, src) with dst == slice[lo:hi]: min(len(dst), len(src)) bytes.
copyTo(slice, lo, hi, src) ==
    LET n == Min(hi - lo, Len(src))
    IN  [k \in DOMAIN slice |-> IF k >= lo /\ k < lo + n THEN src[k - lo + 1] ELSE slice[k]]

\* The space PrepareBulkWrite and CommitBulkWrite compute (their switch).
bulkAvailable(buf) ==
    LET bCap == Buffer_Cap(buf)
    IN  IF buf.busy /\ buf.a = buf.b THEN 0
        ELSE IF buf.busy /\ buf.a < buf.b THEN bCap - buf.b
        ELSE IF buf.busy THEN buf.a - buf.b
        ELSE bCap

\* Returns the slice buffer.slice[b:c] as its bounds (off, len); nil is
\* isNil.  a and b are read into locals before the switch resets the fields.
Buffer_PrepareBulkWrite(buf, length) ==
    LET bCap == Buffer_Cap(buf)
        b    == buf.b
    IN  IF buf.busy /\ buf.a = buf.b
        THEN [buffer |-> buf, isNil |-> TRUE, off |-> 0, len |-> 0, panic |-> FALSE]
        ELSE LET buf1    == IF buf.busy THEN buf ELSE [buf EXCEPT !.a = 0, !.b = 0]
                 length1 == Min(length, bulkAvailable(buf))
                 c       == b + length1
             IN  [buffer |-> buf1, isNil |-> FALSE, off |-> b, len |-> length1,
                  panic |-> c > bCap]

Buffer_CommitBulkWrite(buf, length) ==
    IF length = 0 THEN [buffer |-> buf, panic |-> FALSE]
    ELSE IF ~(length <= bulkAvailable(buf)) THEN [buffer |-> buf, panic |-> TRUE]
    ELSE [buffer |-> [buf EXCEPT !.b = (buf.b + length) % (buf.mask + 1), !.busy = TRUE],
          panic |-> FALSE]

Buffer_WriteByte(buf, ch) ==
    IF buf.busy /\ buf.a = buf.b THEN [buffer |-> buf, err |-> "ErrFull"]
    ELSE LET buf1 == IF ~buf.busy THEN [buf EXCEPT !.a = 0, !.b = 0] ELSE buf
         IN  [buffer |-> [buf1 EXCEPT !.slice[buf1.b] = ch,
                                      !.b = (buf1.b + 1) % (buf1.mask + 1),
                                      !.busy = TRUE],
              err |-> "nil"]

Buffer_Write(buf, p) ==
    IF Len(p) = 0 THEN [buffer |-> buf, n |-> 0, err |-> "nil", panic |-> FALSE]
    ELSE LET buf1  == IF ~buf.busy THEN [buf EXCEPT !.a = 0, !.b = 0] ELSE buf
             bCap  == Buffer_Cap(buf1)
             aw    == buf1.a
             bw    == buf1.b
             a     == aw
             b     == IF buf1.busy /\ aw >= bw THEN bw + bCap ELSE bw
             bUsed == b - a
             bFree == bCap - bUsed
             pLen  == IF Len(p) > bFree THEN bFree ELSE Len(p)
             p1    == SubSeq(p, 1, pLen)
             err   == IF Len(p) > bFree THEN "ErrFull" ELSE "nil"
             c     == b + pLen
             cw    == c % (buf1.mask + 1)
             x     == bCap - b
         IN  IF bw >= cw
             \* p[:x]; the wrapped x is above cap(p)
             THEN IF x < 0 \/ x > pLen
                  THEN [buffer |-> buf1, n |-> 0, err |-> "nil", panic |-> TRUE]
                  ELSE LET s1 == copyTo(buf1.slice, bw, bCap, SubSeq(p1, 1, x))
                           s2 == copyTo(s1, 0, cw, SubSeq(p1, x + 1, pLen))
                       IN  [buffer |-> [buf1 EXCEPT !.slice = s2, !.b = cw, !.busy = TRUE],
                            n |-> pLen, err |-> err, panic |-> FALSE]
             ELSE [buffer |-> [buf1 EXCEPT !.slice = copyTo(buf1.slice, bw, cw, p1),
                                           !.b = cw, !.busy = TRUE],
                   n |-> pLen, err |-> err, panic |-> FALSE]

\* Returns the bytes of buffer.slice[a:c].
Buffer_PrepareBulkRead(buf, length) ==
    IF ~buf.busy THEN <<>>
    ELSE LET a == buf.a
             b == IF buf.a >= buf.b THEN Buffer_Cap(buf) ELSE buf.b
             length1 == Min(length, b - a)
         IN  SubSlice(buf.slice, a, a + length1)

Buffer_CommitBulkRead(buf, length) ==
    IF length = 0 THEN [buffer |-> buf, panic |-> FALSE]
    ELSE LET a == buf.a
             b == IF buf.busy /\ buf.a >= buf.b THEN Buffer_Cap(buf) ELSE buf.b
             available == b - a
             aPrime == (a + length) % (buf.mask + 1)
         IN  IF ~(length <= available) THEN [buffer |-> buf, panic |-> TRUE]
             ELSE [buffer |-> [buf EXCEPT !.a = aPrime, !.busy = (aPrime # buf.b)],
                   panic |-> FALSE]

\* Mutant of ReadByte: busy is not cleared when the last byte is taken.
Buffer_ReadByteStaysBusy(buf) ==
    IF ~buf.busy THEN [buffer |-> buf, ch |-> 0, err |-> "ErrEmpty"]
    ELSE LET aw == (buf.a + 1) % (buf.mask + 1)
         IN  [buffer |-> [buf EXCEPT !.a = aw],
              ch |-> buf.slice[buf.a], err |-> "nil"]

Buffer_ReadByte(buf) ==
    IF ~buf.busy THEN [buffer |-> buf, ch |-> 0, err |-> "ErrEmpty"]
    ELSE LET aw == (buf.a + 1) % (buf.mask + 1)
         IN  [buffer |-> [buf EXCEPT !.a = aw, !.busy = (aw # buf.b)],
              ch |-> buf.slice[buf.a], err |-> "nil"]

\* length is len(p) of the destination; data holds the bytes copied into it.
Buffer_Read(buf, length) ==
    IF length = 0 THEN [buffer |-> buf, n |-> 0, data |-> <<>>, err |-> "nil"]
    ELSE IF ~buf.busy THEN [buffer |-> buf, n |-> 0, data |-> <<>>, err |-> "ErrEmpty"]
    ELSE LET bCap  == Buffer_Cap(buf)
             aw    == buf.a
             bw    == buf.b
             a     == aw
             b     == IF aw >= bw THEN bw + bCap ELSE bw
             bUsed == b - a
             pLen  == IF length > bUsed THEN bUsed ELSE length
             c     == a + pLen
             cw    == c % (buf.mask + 1)
             data  == IF aw >= cw
                      THEN SubSlice(buf.slice, aw, bCap) \o SubSlice(buf.slice, 0, cw)
                      ELSE SubSlice(buf.slice, aw, cw)
         IN  [buffer |-> [buf EXCEPT !.a = cw, !.busy = (cw # bw)],
              n |-> pLen, data |-> data, err |-> "nil"]

\* Buffer.Bytes: a copy of the contents, oldest byte first.
Buffer_Bytes(buf) ==
    IF buf.busy /\ buf.a >= buf.b
    THEN SubSlice(buf.slice, buf.a, Buffer_Cap(buf)) \o SubSlice(buf.slice, 0, buf.b)
    ELSE SubSlice(buf.slice, buf.a, buf.b)

\* --------------------------------------------- WindowBytes, BufferBytes
\* A Go slice value is a header: the array it points into, an offset and a
\* length.  "region" is the array behind lz77.slice; "result" is the array
\* that make allocates in WindowBytes and BufferBytes (mem holds its bytes).
WindowBytes(lz) ==
    LET shared == [array |-> "region", off |-> lz.h, len |-> lz.i - lz.h]
        result == [k \in 0..(shared.len - 1) |-> lz.slice[shared.off + k]]
    IN  [array |-> shared.array, off |-> shared.off, len |-> shared.len, mem |-> result]

BufferBytes(lz) ==
    LET shared == [array |-> "region", off |-> lz.i, len |-> lz.j - lz.i]
        result == [k \in 0..(shared.len - 1) |-> lz.slice[shared.off + k]]
    IN  [array |-> shared.array, off |-> shared.off, len |-> shared.len, mem |-> result]

\* The bytes a caller reads through a slice header, given the engine as it
\* is now.
Deref(hdr, lz) ==
    IF hdr.array = "region"
    THEN [k \in 1..hdr.len |-> lz.slice[hdr.off + k - 1]]
    ELSE [k \in 1..hdr.len |-> hdr.mem[hdr.off + k - 1]]

\* ------------------------------------------- the engine with another mixer
\* The engine built with a 4-byte hash function other than hash4: the methods
\* that call hash4, with the function (mixer) as a parameter.  A mixer maps
\* four bytes into 0..hashMask.
Mixers == {"hash4", "lastByte", "byteSum", "zero"}

Mix(mixer, slice, hashMask) ==
    CASE mixer = "hash4"    -> hash4(slice, hashMask)
      [] mixer = "lastByte" -> slice[4] % (hashMask + 1)
      [] mixer = "byteSum"  -> (slice[1] + slice[2] + slice[3] + slice[4]) % (hashMask + 1)
      [] mixer = "zero"     -> 0

RECURSIVE windowUpdateLoopWith(_, _, _, _)
windowUpdateLoopWith(mixer, lz, index, end) ==
    IF ~Lt32(index, end) THEN lz
    ELSE LET hash        == Mix(mixer, SubSlice(lz.slice, index, index + hashLen), lz.hashMask)
             prevPlusOne == lz.htLastByHash[hash]
             indexPlusOne == index + 1
         IN  windowUpdateLoopWith(mixer,
                 [lz EXCEPT !.htLastByHash[hash] = indexPlusOne,
                            !.htPrevByIndex[index] = prevPlusOne],
                 index + 1, end)

windowUpdateRegionWith(mixer, lz, index) ==
    IF lz.htLastByHash = Nil THEN lz
    ELSE LET index1 == IF Lt32(index, lz.h) THEN lz.h ELSE index
             end0   == Sub32(lz.j, hashLenSubOne)
             end    == IF Lt32(lz.i, end0) THEN lz.i ELSE end0
         IN  windowUpdateLoopWith(mixer, lz, index1, end)

advanceFinishWith(mixer, lz, best) ==
    LET i      == lz.i
        iPrime == IF best.bestFound THEN i + best.bestLength ELSE i + 1
        hPrime == slideWindow(lz, iPrime)
    IN  [lz  |-> windowUpdateRegionWith(mixer, [lz EXCEPT !.h = hPrime, !.i = iPrime], i),
         buf |-> SubSlice(lz.slice, i, iPrime),
         matchDistance |-> IF best.bestFound THEN best.bestDistance ELSE 0,
         matchLength   |-> IF best.bestFound THEN best.bestLength ELSE 0,
         matchFound    |-> best.bestFound]

advanceStandardWith(mixer, lz) ==
    IF lz.i + 1 > lz.j THEN NoAdvance(lz)
    ELSE LET maxLen == Min(lz.maxLen, lz.j - lz.i)
             best   == IF lz.minLen <= maxLen
                       THEN LET hash == Mix(mixer, SubSlice(lz.slice, lz.i, lz.i + hashLen),
                                            lz.hashMask)
                            IN  standardLoop(lz, lz.htLastByHash[hash], lz.i + 1,
                                             maxLen, NoBest)
                       ELSE NoBest
         IN  advanceFinishWith(mixer, lz, best)

\* Only advanceStandard hashes; the other two modes keep no hash tables.
AdvanceWith(mixer, lz) ==
    IF lz.maxLen = 0 THEN advanceByte(lz)
    ELSE IF lz.hbits = 0 THEN advanceNoHash(lz)
    ELSE advanceStandardWith(mixer, lz)

WriteWith(mixer, lz, data) ==
    LET y      == free(lz)
        length == Min(Len(data), y)
        err    == IF Len(data) > y THEN "ErrFull" ELSE "nil"
        data1  == SubSeq(data, 1, length)
        lz1    == shift(lz, length)
        j      == lz1.j
        jPrime == j + length
        lz2    == [lz1 EXCEPT !.slice = copyInto(lz1.slice, j, data1), !.j = jPrime]
    IN  [lz |-> windowUpdateRegionWith(mixer, lz2, Sub32(j, hashLenSubOne)),
         n |-> length, err |-> err]

\* =============================================================== state
VARIABLES
    lz77,       \* the LZ77 struct
    written,    \* bytes accepted by the write methods since Init/Clear
    delivered,  \* bytes handed to the caller by reads and Advance since Init/Clear
    expanded,   \* the Advance results since Init/Clear, back-references
                \* expanded (kept where Advance is called with decode)
    shifted,    \* shift has moved the contents since Init/Clear
    matchedLate, \* Advance has returned a match after a shift, since Init/Clear
    initCall,   \* the Init call that made the engine: its options, and whether
                \* it panicked
    twin,       \* a second engine, built with another 4-byte mixer and driven
                \* by the same calls as lz77
    held,       \* the slice a caller keeps from WindowBytes or BufferBytes
    buffer,     \* the Buffer struct (the ring buffer of src/buffer.go)
    put,        \* bytes accepted by the Buffer's write methods since Init
    got         \* bytes handed out by the Buffer's read methods since Init

\* The ring buffer and its history.
ringVars == <<buffer, put, got>>

\* The LZ77 engines, their history and the slice kept from them.
lzVars == <<lz77, written, delivered, expanded, shifted, matchedLate, initCall, twin, held>>

vars == <<lz77, written, delivered, expanded, shifted, matchedLate, initCall, twin, held, ringVars>>

\* The values of the variables a specification does not use.
NoTwin == [mixer |-> "none", lz |-> Nil]
NoHeld == [array |-> "none", off |-> 0, len |-> 0, mem |-> Nil, was |-> <<>>]
ZeroBuffer == [slice |-> Nil, mask |-> 0, a |-> 0, b |-> 0, busy |-> FALSE, nbits |-> 0]

EngineOnly ==
    /\ twin = NoTwin
    /\ held = NoHeld
    /\ buffer = ZeroBuffer
    /\ put = <<>>
    /\ got = <<>>

\* Option sets of the engines under test.
Configs ==
    { Opt(2, 2, 1, 0, FALSE, 0, FALSE, 0, FALSE),   \* standard: minLen 4, maxLen 4, maxDist 4
      Opt(2, 2, 3, 2, TRUE, 3, TRUE, 3, TRUE),      \* non-hashed: minLen 2, maxLen 3, maxDist 3
      Opt(2, 1, 2, 0, FALSE, 0, TRUE, 0, FALSE) }   \* literal-only: maxLen 0

\* Arguments of SetWindow.
WindowData == { <<98, 97, 98, 98, 97>> }

SeqsUpTo(n) == UNION {[1..m -> Alphabet] : m \in 0..n}

RECURSIVE CopyBack(_, _, _)
\* Append L bytes, each copied from d bytes back in the output so far.
CopyBack(out, d, L) ==
    IF L = 0 THEN out
    ELSE CopyBack(Append(out, IF d >= 1 /\ d <= Len(out) THEN out[Len(out) + 1 - d] ELSE -1),
                  d, L - 1)

\* The decoder's view of one Advance result.
Expand(out, r) ==
    IF r.matchFound THEN CopyBack(out, r.matchDistance, r.matchLength) ELSE out \o r.buf

InitFor(cfgs) ==
    /\ \E o \in {c \in cfgs : InitOK(c)} :
           /\ lz77 = InitLZ77(o)
           /\ initCall = [options |-> o, aborted |-> FALSE]
    /\ written = <<>>
    /\ delivered = <<>>
    /\ expanded = <<>>
    /\ shifted = FALSE
    /\ matchedLate = FALSE
    /\ EngineOnly

Init == InitFor(Configs)

ClearCall ==
    /\ lz77' = Clear(lz77)
    /\ written' = <<>>
    /\ delivered' = <<>>
    /\ expanded' = <<>>
    /\ shifted' = FALSE
    /\ matchedLate' = FALSE
    /\ UNCHANGED <<initCall, twin, held, ringVars>>

WindowClearCall ==
    /\ lz77' = WindowClear(lz77)
    /\ UNCHANGED <<written, delivered, expanded, shifted, matchedLate, initCall, twin, held, ringVars>>

SetWindowCall ==
    \E data \in WindowData :
        /\ lz77' = SetWindow(lz77, data)
        /\ UNCHANGED <<written, delivered, expanded, shifted, matchedLate, initCall, twin, held, ringVars>>

\* The write actions take the writer's budget (cap) as a parameter.
WriteByteCall(cap) ==
    \E ch \in Alphabet :
        LET r == WriteByte(lz77, ch) IN
        /\ Len(written) < cap
        /\ lz77' = r.lz
        /\ written' = IF r.err = "nil" THEN Append(written, ch) ELSE written
        /\ shifted' = (shifted \/ (r.err = "nil" /\ shiftNeeded(lz77, 1)))
        /\ UNCHANGED <<delivered, expanded, matchedLate, initCall, twin, held, ringVars>>

WriteCall(cap, inputs) ==
    \E data \in inputs :
        LET r == Write(lz77, data) IN
        /\ Len(written) + Len(data) <= cap
        /\ lz77' = r.lz
        /\ written' = written \o SubSeq(data, 1, r.n)
        /\ shifted' = (shifted \/ shiftNeeded(lz77, r.n))
        /\ UNCHANGED <<delivered, expanded, matchedLate, initCall, twin, held, ringVars>>

\* PrepareBulkWrite(MaxReq); the caller fills data into the front of the
\* returned slice; CommitBulkWrite(len(data)).
BulkWriteCall(cap) ==
    \E data \in SeqsUpTo(MaxWriteLen) :
        LET p      == PrepareBulkWrite(lz77, MaxReq)
            filled == [p.lz EXCEPT !.slice = copyInto(p.lz.slice, p.j, data)]
        IN
        /\ Len(data) <= p.jPrime - p.j
        /\ Len(written) + Len(data) <= cap
        /\ CommitBulkWriteAssert(filled, Len(data))
        /\ lz77' = CommitBulkWrite(filled, Len(data))
        /\ written' = written \o data
        /\ shifted' = (shifted \/ shiftNeeded(lz77, p.jPrime - p.j))
        /\ UNCHANGED <<delivered, expanded, matchedLate, initCall, twin, held, ringVars>>

\* PrepareBulkWrite(MaxReq) whose slice the caller drops without a commit.
PrepareBulkWriteCall ==
    LET p == PrepareBulkWrite(lz77, MaxReq) IN
    /\ lz77' = p.lz
    /\ shifted' = (shifted \/ shiftNeeded(lz77, p.jPrime - p.j))
    /\ UNCHANGED <<written, delivered, expanded, matchedLate, initCall, twin, held, ringVars>>

\* PrepareBulkRead(MaxReq); CommitBulkRead(length) with length <= len(slice).
BulkReadCall ==
    LET buf == PrepareBulkRead(lz77, MaxReq) IN
    \E length \in 0..Len(buf) :
        /\ CommitBulkReadAssert(lz77, length)
        /\ lz77' = CommitBulkRead(lz77, length)
        /\ delivered' = delivered \o SubSeq(buf, 1, length)
        /\ UNCHANGED <<written, expanded, shifted, matchedLate, initCall, twin, held, ringVars>>

ReadByteCall ==
    LET r == ReadByte(lz77) IN
    /\ lz77' = r.lz
    /\ delivered' = IF r.err = "nil" THEN Append(delivered, r.ch) ELSE delivered
    /\ UNCHANGED <<written, expanded, shifted, matchedLate, initCall, twin, held, ringVars>>

ReadCall ==
    \E length \in 0..MaxReq :
        LET r == Read(lz77, length) IN
        /\ lz77' = r.lz
        /\ delivered' = delivered \o r.data
        /\ UNCHANGED <<written, expanded, shifted, matchedLate, initCall, twin, held, ringVars>>

\* decode: the specification keeps the decoder's output (expanded).
AdvanceCall(decode) ==
    LET r == Advance(lz77) IN
    /\ AdvanceIndexAsserts(lz77)
    /\ lz77' = r.lz
    /\ delivered' = delivered \o r.buf
    /\ expanded' = IF decode THEN Expand(expanded, r) ELSE expanded
    /\ matchedLate' = (matchedLate \/ (r.matchFound /\ shifted))
    /\ UNCHANGED <<written, shifted, initCall, twin, held, ringVars>>

Next ==
    \/ ClearCall
    \/ WindowClearCall
    \/ SetWindowCall
    \/ WriteByteCall(MaxWritten)
    \/ WriteCall(MaxWritten, SeqsUpTo(MaxWriteLen))
    \/ BulkWriteCall(MaxWritten)
    \/ PrepareBulkWriteCall
    \/ BulkReadCall
    \/ ReadByteCall
    \/ ReadCall
    \/ AdvanceCall(FALSE)

\* Every public method, on engines in each of the three modes.
Spec == Init /\ [][Next]_vars

\* Only the write methods, Advance and Clear, with a longer stream, so that
\* Write and WriteByte themselves run into the end of the region.
ConfigsWA ==
    { Opt(2, 2, 1, 0, FALSE, 0, FALSE, 0, FALSE),   \* standard
      Opt(2, 2, 3, 2, TRUE, 3, TRUE, 3, TRUE) }     \* non-hashed

InitWA == InitFor(ConfigsWA)

NextWA ==
    \/ ClearCall
    \/ WriteByteCall(MaxWrittenWA)
    \/ WriteCall(MaxWrittenWA, SeqsUpTo(MaxWriteLen))
    \/ BulkWriteCall(MaxWrittenWA)
    \/ AdvanceCall(TRUE)

SpecWA == InitWA /\ [][NextWA]_vars

\* A writer that emits words of a three-word dictionary, on standard-mode
\* engines whose matches can have different lengths (bufferBits 3) and whose
\* window is larger than the buffer (windowBits 3, bufferBits 2).
Words == { <<98>>, <<97, 98, 98>>, <<98, 97, 98, 98>> }

ConfigsWords ==
    { Opt(3, 3, 2, 0, FALSE, 0, FALSE, 0, FALSE),   \* minLen 4, maxLen 8, maxDist 8
      Opt(2, 3, 1, 0, FALSE, 0, FALSE, 0, FALSE) }  \* minLen 4, maxLen 4, maxDist 8

InitWords == InitFor(ConfigsWords)

\* The writer of SpecWords writes a word only when the buffer has room for
\* all of it.
WriteWordCall ==
    \E data \in Words :
        LET r == Write(lz77, data) IN
        /\ Len(data) <= free(lz77)
        /\ Len(written) + Len(data) <= MaxWrittenWords
        /\ lz77' = r.lz
        /\ written' = written \o SubSeq(data, 1, r.n)
        /\ shifted' = (shifted \/ shiftNeeded(lz77, r.n))
        /\ UNCHANGED <<delivered, expanded, matchedLate, initCall, twin, held, ringVars>>

NextWords ==
    \/ WriteWordCall
    \/ AdvanceCall(FALSE)

SpecWords == InitWords /\ [][NextWords]_vars

\* Init alone, on a new engine, over a space of options: every bit count
\* within its bounds, lengths and distances below, at and above the sizes.
OptBufferBits == {2, 3}
OptWindowBits == {0, 1, 2}
OptHashBits == {0, 2}
OptLengths == {0, 1, 3, 4, 5, 9}
OptDistances == {0, 1, 5}

OptionSpace ==
    { Opt(bb, wb, hb, minL, hasMin, maxL, hasMax, maxD, hasDist) :
        bb \in OptBufferBits, wb \in OptWindowBits, hb \in OptHashBits,
        minL \in OptLengths, hasMin \in BOOLEAN,
        maxL \in OptLengths, hasMax \in BOOLEAN,
        maxD \in OptDistances, hasDist \in BOOLEAN }

\* The zero value of the LZ77 struct and of LZ77Options.
ZeroLZ77 ==
    [slice |-> Nil, htLastByHash |-> Nil, htPrevByIndex |-> Nil,
     h |-> 0, i |-> 0, j |-> 0, bsize |-> 0, wsize |-> 0, hashMask |-> 0,
     minLen |-> 0, maxLen |-> 0, maxDist |-> 0, bbits |-> 0, wbits |-> 0, hbits |-> 0]

ZeroOptions == Opt(0, 0, 0, 0, FALSE, 0, FALSE, 0, FALSE)

InitNew ==
    /\ lz77 = ZeroLZ77
    /\ initCall = [options |-> ZeroOptions, aborted |-> FALSE]
    /\ written = <<>>
    /\ delivered = <<>>
    /\ expanded = <<>>
    /\ shifted = FALSE
    /\ matchedLate = FALSE
    /\ EngineOnly

\* lz77.Init(o) on the new engine: a failed assertion panics before the
\* struct is assigned.
InitCall ==
    \E o \in OptionSpace :
        /\ lz77 = ZeroLZ77
        /\ ~initCall.aborted
        /\ initCall' = [options |-> o, aborted |-> ~InitOK(o)]
        /\ lz77' = IF InitOK(o) THEN InitLZ77(o) ELSE lz77
        /\ UNCHANGED <<written, delivered, expanded, shifted, matchedLate, twin, held, ringVars>>

NextInit == InitCall

SpecInit == InitNew /\ [][NextInit]_vars

\* Two engines made from the same options, lz77 with hash4 and twin with
\* another mixer, given the same calls: the word writer and Advance.
\* Bytes accepted by lz77 before the writer stops.
MaxWrittenMixer == 14

InitMixer ==
    /\ \E o \in {c \in ConfigsWords : InitOK(c)} :
           /\ lz77 = InitLZ77(o)
           /\ initCall = [options |-> o, aborted |-> FALSE]
           /\ \E mixer \in Mixers \ {"hash4"} :
                  twin = [mixer |-> mixer, lz |-> InitLZ77(o)]
    /\ written = <<>>
    /\ delivered = <<>>
    /\ expanded = <<>>
    /\ shifted = FALSE
    /\ matchedLate = FALSE
    /\ held = NoHeld
    /\ buffer = ZeroBuffer
    /\ put = <<>>
    /\ got = <<>>

WriteBothCall ==
    \E data \in Words :
        LET r == Write(lz77, data) IN
        /\ Len(data) <= free(lz77)
        /\ Len(written) + Len(data) <= MaxWrittenMixer
        /\ lz77' = r.lz
        /\ twin' = [twin EXCEPT !.lz = WriteWith(twin.mixer, twin.lz, data).lz]
        /\ written' = written \o SubSeq(data, 1, r.n)
        /\ shifted' = (shifted \/ shiftNeeded(lz77, r.n))
        /\ UNCHANGED <<delivered, expanded, matchedLate, initCall, held, ringVars>>

AdvanceBothCall ==
    LET r == Advance(lz77) IN
    /\ AdvanceIndexAsserts(lz77)
    /\ AdvanceIndexAsserts(twin.lz)
    /\ lz77' = r.lz
    /\ twin' = [twin EXCEPT !.lz = AdvanceWith(twin.mixer, twin.lz).lz]
    /\ delivered' = delivered \o r.buf
    /\ matchedLate' = (matchedLate \/ (r.matchFound /\ shifted))
    /\ UNCHANGED <<written, expanded, shifted, initCall, held, ringVars>>

NextMixer ==
    \/ WriteBothCall
    \/ AdvanceBothCall

SpecMixer == InitMixer /\ [][NextMixer]_vars

\* A caller that keeps the slice returned by WindowBytes or BufferBytes
\* while the engine is cleared, seeded, written to and advanced.
\* Bytes accepted since Init/Clear before the writer stops.
MaxWrittenCopy == 4

InitCopy == InitFor(Configs)

\* held.was is the byte sequence the call returned.
WindowBytesCall ==
    LET r == WindowBytes(lz77) IN
    /\ held' = [array |-> r.array, off |-> r.off, len |-> r.len, mem |-> r.mem,
                was |-> Deref(r, lz77)]
    /\ UNCHANGED <<lz77, written, delivered, expanded, shifted, matchedLate,
                   initCall, twin, ringVars>>

BufferBytesCall ==
    LET r == BufferBytes(lz77) IN
    /\ held' = [array |-> r.array, off |-> r.off, len |-> r.len, mem |-> r.mem,
                was |-> Deref(r, lz77)]
    /\ UNCHANGED <<lz77, written, delivered, expanded, shifted, matchedLate,
                   initCall, twin, ringVars>>

NextCopy ==
    \/ WindowBytesCall
    \/ BufferBytesCall
    \/ ClearCall
    \/ SetWindowCall
    \/ WriteCall(MaxWrittenCopy, SeqsUpTo(MaxWriteLen))
    \/ AdvanceCall(FALSE)

SpecCopy == InitCopy /\ [][NextCopy]_vars

\* The ring buffer alone: Buffers of 2 and 4 bytes.
RingBits == {1, 2}
\* Bytes accepted since Init before the writer stops.
MaxPut == 6

InitRing ==
    /\ \E numBits \in RingBits : buffer = Buffer_Init(numBits)
    /\ put = <<>>
    /\ got = <<>>
    /\ lz77 = ZeroLZ77
    /\ initCall = [options |-> ZeroOptions, aborted |-> FALSE]
    /\ written = <<>>
    /\ delivered = <<>>
    /\ expanded = <<>>
    /\ shifted = FALSE
    /\ matchedLate = FALSE
    /\ twin = NoTwin
    /\ held = NoHeld

Buffer_WriteByteCall ==
    \E ch \in Alphabet :
        LET r == Buffer_WriteByte(buffer, ch) IN
        /\ Len(put) < MaxPut
        /\ buffer' = r.buffer
        /\ put' = IF r.err = "nil" THEN Append(put, ch) ELSE put
        /\ UNCHANGED <<got, lzVars>>

Buffer_ReadByteCall ==
    LET r == Buffer_ReadByte(buffer) IN
    /\ buffer' = r.buffer
    /\ got' = IF r.err = "nil" THEN Append(got, r.ch) ELSE got
    /\ UNCHANGED <<put, lzVars>>

\* A call that panics ends the run: it is no step.
Buffer_WriteCall ==
    \E p \in SeqsUpTo(MaxWriteLen) :
        LET r == Buffer_Write(buffer, p) IN
        /\ Len(put) + Len(p) <= MaxPut
        /\ ~r.panic
        /\ buffer' = r.buffer
        /\ put' = put \o SubSeq(p, 1, r.n)
        /\ UNCHANGED <<got, lzVars>>

Buffer_ReadCall ==
    \E length \in 0..MaxReq :
        LET r == Buffer_Read(buffer, length) IN
        /\ buffer' = r.buffer
        /\ got' = got \o r.data
        /\ UNCHANGED <<put, lzVars>>

\* PrepareBulkWrite(length); the caller fills data into the front of the
\* returned slice; CommitBulkWrite(len(data)).
Buffer_BulkWriteCall ==
    \E length \in 0..MaxReq, data \in SeqsUpTo(MaxWriteLen) :
        LET w      == Buffer_PrepareBulkWrite(buffer, length)
            filled == [w.buffer EXCEPT
                          !.slice = copyTo(w.buffer.slice, w.off, w.off + w.len, data)]
            r      == Buffer_CommitBulkWrite(filled, Len(data))
        IN
        /\ Len(put) + Len(data) <= MaxPut
        /\ ~w.panic
        /\ Len(data) <= w.len
        /\ ~r.panic
        /\ buffer' = r.buffer
        /\ put' = put \o data
        /\ UNCHANGED <<got, lzVars>>

\* PrepareBulkRead(MaxReq); CommitBulkRead(length) with length <= len(slice).
Buffer_BulkReadCall ==
    LET view == Buffer_PrepareBulkRead(buffer, MaxReq) IN
    \E length \in 0..Len(view) :
        LET r == Buffer_CommitBulkRead(buffer, length) IN
        /\ ~r.panic
        /\ buffer' = r.buffer
        /\ got' = got \o SubSeq(view, 1, length)
        /\ UNCHANGED <<put, lzVars>>

Buffer_ClearCall ==
    /\ buffer' = Buffer_Clear(buffer)
    /\ put' = <<>>
    /\ got' = <<>>
    /\ UNCHANGED lzVars

\* WriteByte and ReadByte only.
NextRingBytes ==
    \/ Buffer_WriteByteCall
    \/ Buffer_ReadByteCall

SpecRingBytes == InitRing /\ [][NextRingBytes]_vars

\* Every reading and writing method of Buffer, and Clear.
NextRing ==
    \/ Buffer_WriteByteCall
    \/ Buffer_ReadByteCall
    \/ Buffer_WriteCall
    \/ Buffer_ReadCall
    \/ Buffer_BulkWriteCall
    \/ Buffer_BulkReadCall
    \/ Buffer_ClearCall

SpecRing == InitRing /\ [][NextRing]_vars

(***************************************************************************)
(* Properties.                                                             *)
(***************************************************************************)

\* Length of the longest common prefix, at most cap bytes, of the bytes at
\* position c and the bytes at the head of the buffer.
CommonPrefix(lz, c, cap) ==
    CHOOSE L \in 0..cap :
        /\ \A k \in 0..(L - 1) : lz.slice[c + k] = lz.slice[lz.i + k]
        /\ (L < cap => lz.slice[c + L] # lz.slice[lz.i + L])

\* The longest match Advance may return: min(maxLen, buffered bytes).
MatchCap(lz) == Min(lz.maxLen, lz.j - lz.i)

\* The positions of the window.
WindowPositions(lz) == lz.h .. (lz.i - 1)

\* The last n elements of a sequence (all of it if it is shorter).
Suffix(s, n) == SubSeq(s, Len(s) - Min(n, Len(s)) + 1, Len(s))

\* C1: in every run of the write methods and Advance from an engine that
\* starts empty (Init or Clear), the expansion of the results returned so far
\* (literals appended, matches copied byte by byte from matchDistance back)
\* is the prefix of the written stream that has left the buffer; with an
\* empty buffer it is the whole stream.
RoundTrip ==
    /\ Len(expanded) = Len(written) - Len77(lz77)
    /\ expanded = SubSeq(written, 1, Len(expanded))
    /\ (lz77.i = lz77.j => expanded = written)

\* C1 witness: the stream was long enough for a write to shift the region, a
\* match was returned afterwards, and the buffer is consumed.
RoundTripWitness ==
    /\ shifted /\ matchedLate
    /\ lz77.i = lz77.j
    /\ expanded = written
    /\ Len(written) > lz77.bsize + lz77.wsize

\* C2: a match returned by Advance has 1 <= matchDistance <= maxDist,
\* minLen <= matchLength <= maxLen, matchLength <= buffered bytes, and the
\* matchLength bytes at the head of the buffer equal the bytes matchDistance
\* before them; the returned slice is those matchLength bytes.
MatchValid ==
    LET r == Advance(lz77) IN
    r.matchFound =>
        /\ 1 <= r.matchDistance /\ r.matchDistance <= lz77.maxDist
        /\ lz77.minLen <= r.matchLength /\ r.matchLength <= lz77.maxLen
        /\ r.matchLength <= lz77.j - lz77.i
        /\ \A k \in 0..(r.matchLength - 1) :
              lz77.slice[lz77.i - r.matchDistance + k] = lz77.slice[lz77.i + k]
        /\ r.buf = SubSlice(lz77.slice, lz77.i, lz77.i + r.matchLength)

\* C2 witness: after a shift and a match, Advance returns a match that
\* overlaps the bytes it replaces (distance smaller than length).
MatchValidWitness ==
    /\ shifted /\ matchedLate
    /\ Advance(lz77).matchFound
    /\ Advance(lz77).matchDistance < Advance(lz77).matchLength

\* C3: a match returned by Advance is at least as long as the common prefix
\* (capped at min(maxLen, buffered bytes)) of every window position.
LongestMatch ==
    LET r == Advance(lz77) IN
    r.matchFound =>
        \A c \in WindowPositions(lz77) :
            CommonPrefix(lz77, c, MatchCap(lz77)) <= r.matchLength

\* C4: in standard and non-hashed mode Advance returns a literal from a
\* non-empty buffer only when no window position has a common prefix of
\* minLen bytes or more.
LiteralOnlyWhenNoMatch ==
    LET r == Advance(lz77) IN
    (lz77.i < lz77.j /\ lz77.maxLen > 0 /\ ~r.matchFound) =>
        \A c \in WindowPositions(lz77) :
            CommonPrefix(lz77, c, MatchCap(lz77)) < lz77.minLen

\* C5: among the window positions whose common prefix has the returned
\* length, Advance returns the one with the smallest distance.
SmallestDistance ==
    LET r == Advance(lz77) IN
    r.matchFound =>
        \A c \in WindowPositions(lz77) :
            CommonPrefix(lz77, c, MatchCap(lz77)) = r.matchLength
                => r.matchDistance <= lz77.i - c

\* C6: after every public operation h <= i <= j <= len(region), the region
\* has windowSize + 2*bufferSize bytes, i - h <= windowSize and
\* j - i <= bufferSize; hence the assertions at the top of Advance hold.
IndexInvariant ==
    /\ lz77.h <= lz77.i /\ lz77.i <= lz77.j
    /\ lz77.j <= Cardinality(DOMAIN lz77.slice)
    /\ Cardinality(DOMAIN lz77.slice) = lz77.wsize + 2 * lz77.bsize
    /\ lz77.i - lz77.h <= lz77.wsize
    /\ lz77.j - lz77.i <= lz77.bsize
    /\ AdvanceIndexAsserts(lz77)

\* C6 witness: a write has shifted the region, the window is as large as it
\* can be and the buffer holds bytes.
IndexInvariantWitness ==
    /\ shifted
    /\ lz77.i - lz77.h = lz77.wsize
    /\ lz77.j > lz77.i

\* C7: the bytes delivered by Read, ReadByte, bulk reads and Advance, in call
\* order, followed by the bytes still buffered, are the accepted written
\* bytes in the order they were written.
FIFOOrder == delivered \o BufferBytesView(lz77) = written

\* C7 witness: after writes, one of which shifted the region, and calls that
\* consumed bytes, a Read hands out the bytes still buffered, and with them
\* every byte of a stream longer than the buffer has been delivered in order.
FIFOOrderWitness ==
    /\ shifted
    /\ lz77.i < lz77.j /\ delivered # <<>>
    /\ Len(written) > lz77.bsize
    /\ delivered \o Read(lz77, MaxReq).data = written
    /\ BufferBytesView(Read(lz77, MaxReq).lz) = <<>>

\* What a read of the first n buffered bytes does to the window if it admits
\* them the way Advance does: the window becomes the last
\* min(maxDist, old window length + n) bytes of old window \o removed bytes.
WindowAfterRemoving(lz, n) ==
    Suffix(WindowBytesView(lz) \o SubSeq(BufferBytesView(lz), 1, n),
           Min(lz.maxDist, (lz.i - lz.h) + n))

WriteFullOnlyIfNothingFits ==
    \A data \in SeqsUpTo(MaxWriteLen) :
        LET r == Write(lz77, data) IN
        r.n > 0 => r.err = "nil"

\* C9 amended: Write stores the first min(len(data), free space) bytes of
\* data, returns that count, and returns ErrFull exactly when len(data)
\* exceeds the free space (also when some, but not all, bytes were stored).
WriteFullWhenTruncated ==
    \A data \in SeqsUpTo(MaxWriteLen) :
        LET r == Write(lz77, data) IN
        /\ r.n = Min(Len(data), lz77.bsize - Len77(lz77))
        /\ (r.err = "ErrFull") = (Len(data) > lz77.bsize - Len77(lz77))
        /\ r.err \in {"nil", "ErrFull"}
        /\ BufferBytesView(r.lz) = BufferBytesView(lz77) \o SubSeq(data, 1, r.n)

\* C9 witness: the buffer has room for some but not all bytes of an input,
\* and Write stores a part of it and returns ErrFull.
WriteFullWhenTruncatedWitness ==
    /\ 0 < lz77.bsize - Len77(lz77)
    /\ lz77.bsize - Len77(lz77) < MaxWriteLen
    /\ \E data \in SeqsUpTo(MaxWriteLen) :
           Write(lz77, data).n > 0 /\ Write(lz77, data).err = "ErrFull"

\* C10: WriteByte returns ErrFull exactly when Len() = BufferSize(), and then
\* leaves h, i, j, the region bytes and both hash arrays unchanged; otherwise
\* it returns nil and Len() grows by exactly 1.
WriteByteFull ==
    \A ch \in Alphabet :
        LET r == WriteByte(lz77, ch) IN
        /\ (r.err = "ErrFull") = (Len77(lz77) = lz77.bsize)
        /\ r.err = "ErrFull" =>
               /\ r.lz.h = lz77.h /\ r.lz.i = lz77.i /\ r.lz.j = lz77.j
               /\ r.lz.slice = lz77.slice
               /\ r.lz.htLastByHash = lz77.htLastByHash
               /\ r.lz.htPrevByIndex = lz77.htPrevByIndex
        /\ r.err # "ErrFull" =>
               /\ r.err = "nil"
               /\ Len77(r.lz) = Len77(lz77) + 1

\* C10 witness: the buffer is full, with bytes in the window, so WriteByte
\* returns ErrFull.
WriteByteFullWitness ==
    /\ Len77(lz77) = lz77.bsize
    /\ lz77.h < lz77.i
    /\ \A ch \in Alphabet : WriteByte(lz77, ch).err = "ErrFull"

\* C11: ReadByte, and Read with a non-empty destination, return ErrEmpty
\* exactly when the buffer holds no bytes (i = j), and then leave h, i, j, the
\* region bytes and both hash arrays as they were (and hand out no byte).
ReadEmpty ==
    /\ LET r == ReadByte(lz77) IN
           /\ (r.err = "ErrEmpty") = (lz77.i = lz77.j)
           /\ r.err \in {"nil", "ErrEmpty"}
           /\ r.err = "ErrEmpty" => r.lz = lz77
    /\ \A length \in 1..MaxReq :
           LET r == Read(lz77, length) IN
           /\ (r.err = "ErrEmpty") = (lz77.i = lz77.j)
           /\ r.err \in {"nil", "ErrEmpty"}
           /\ r.err = "ErrEmpty" => (r.lz = lz77 /\ r.n = 0 /\ r.data = <<>>)

\* C11 witness: a buffer that was written across a shift has been drained;
\* the window holds bytes, the buffer none, and ReadByte and Read return
\* ErrEmpty.
ReadEmptyWitness ==
    /\ shifted
    /\ lz77.h < lz77.i /\ lz77.i = lz77.j
    /\ ReadByte(lz77).err = "ErrEmpty"
    /\ Read(lz77, MaxReq).err = "ErrEmpty"

\* C12 as stated: PrepareBulkWrite(n) whose slice is dropped without a
\* CommitBulkWrite leaves the engine as it was before the call: h, i, j, the
\* region bytes and both hash arrays.
AbandonedPrepareUnchanged ==
    \A n \in 0..MaxReq :
        PrepareBulkWrite(lz77, n).lz = lz77

\* C13 as stated: after PrepareBulkWrite(req), CommitBulkWrite(n) with n
\* greater than the length of the returned slice fails its assertion; an n
\* that passes the assertion leaves j within the prepared slice and within
\* the region.
CommitBulkWriteChecked ==
    \A req \in 0..MaxReq :
        LET p == PrepareBulkWrite(lz77, req) IN
        \A n \in 0..(lz77.bsize + 1) :
            /\ n > p.jPrime - p.j => ~CommitBulkWriteAssert(p.lz, n)
            /\ CommitBulkWriteAssert(p.lz, n) =>
                   /\ p.lz.j + n <= p.jPrime
                   /\ p.lz.j + n <= len(p.lz)

\* C14 as stated: CommitBulkRead(n) with n greater than the number of buffered
\* bytes (j - i) fails its assertion, for every n, also for n > bufferSize on
\* a full buffer.
CommitBulkReadChecked ==
    \A n \in 0..(lz77.bsize + 1) :
        n > lz77.j - lz77.i => ~CommitBulkReadAssert(lz77, n)

\* C15: SetWindow(data) keeps the last min(len(data), maxDist) bytes of data:
\* i, j and the buffer bytes are unchanged, h = i - kept, and WindowBytesView
\* returns the kept bytes in order.
SetWindowKeepsTail ==
    \A data \in SeqsUpTo(MaxWriteLen) \cup WindowData :
        LET q    == SetWindow(lz77, data)
            kept == Min(Len(data), lz77.maxDist)
        IN  /\ q.i = lz77.i /\ q.j = lz77.j
            /\ BufferBytesView(q) = BufferBytesView(lz77)
            /\ q.h = q.i - kept
            /\ WindowBytesView(q) = Suffix(data, kept)

\* C15 witness: no byte has left the buffer, so the window, which holds the
\* last maxDist bytes of data longer than maxDist, was put there by
\* SetWindow; the buffer holds bytes.
SetWindowKeepsTailWitness ==
    /\ delivered = <<>>
    /\ lz77.maxDist > 0 /\ lz77.i < lz77.j
    /\ \E data \in WindowData :
           /\ Len(data) > lz77.maxDist
           /\ WindowBytesView(lz77) = Suffix(data, lz77.maxDist)

\* C16: after an Advance that consumes at least one byte the window start is
\* max(h, i' - maxDist), h the window start before the call and i' the buffer
\* start after it; the window is then at most maxDist bytes long and holds
\* the last i' - h' of the bytes of the old window followed by the consumed
\* bytes, which are the last i' - h' bytes consumed since Init or Clear
\* (where Advance is the only consumer).
AdvanceSlidesWindow ==
    LET r == Advance(lz77) IN
    Len(r.buf) >= 1 =>
        /\ r.lz.i = lz77.i + Len(r.buf)
        /\ r.lz.h = (IF lz77.h >= r.lz.i - lz77.maxDist
                     THEN lz77.h ELSE r.lz.i - lz77.maxDist)
        /\ r.lz.i - r.lz.h <= lz77.maxDist
        /\ WindowBytesView(r.lz) =
               Suffix(WindowBytesView(lz77) \o r.buf, r.lz.i - r.lz.h)
        /\ WindowBytesView(r.lz) = Suffix(delivered \o r.buf, r.lz.i - r.lz.h)

\* C16 witness: after a shift, Advance consumes a match of several bytes from
\* an engine whose window is full, so the window start moves by more than one.
AdvanceSlidesWindowWitness ==
    /\ shifted
    /\ lz77.i - lz77.h = lz77.maxDist
    /\ Advance(lz77).matchFound
    /\ Advance(lz77).lz.h > lz77.h + 1

\* C17: Advance on an empty buffer (i = j), in every mode, returns an empty
\* slice, distance 0, length 0 and matchFound false, and changes nothing: h,
\* i, j, the region bytes and both hash arrays are as before.
AdvanceEmpty ==
    LET r == Advance(lz77) IN
    lz77.i = lz77.j =>
        /\ r.buf = <<>>
        /\ r.matchDistance = 0 /\ r.matchLength = 0 /\ ~r.matchFound
        /\ r.lz.h = lz77.h /\ r.lz.i = lz77.i /\ r.lz.j = lz77.j
        /\ r.lz.slice = lz77.slice
        /\ r.lz.htLastByHash = lz77.htLastByHash
        /\ r.lz.htPrevByIndex = lz77.htPrevByIndex
        /\ r.lz = lz77

\* C17 witness: a standard-mode engine whose buffer was drained after a
\* shift and whose window holds bytes; Advance returns the empty result.
AdvanceEmptyWitness ==
    /\ shifted
    /\ lz77.hbits > 0
    /\ lz77.h < lz77.i /\ lz77.i = lz77.j
    /\ Advance(lz77).buf = <<>>

\* C18: Clear empties window and buffer, sets h = i = j = windowSize, zeroes
\* the whole hash index and keeps the configuration; a second Clear changes
\* nothing more; and the cleared engine is the engine Init makes from the same
\* options, so it behaves like a fresh one.
ClearResets ==
    LET c == Clear(lz77) IN
    /\ c.h = lz77.wsize /\ c.i = lz77.wsize /\ c.j = lz77.wsize
    /\ WindowBytesView(c) = <<>> /\ BufferBytesView(c) = <<>>
    /\ \A k \in DOMAIN c.htLastByHash : c.htLastByHash[k] = 0
    /\ \A k \in DOMAIN c.htPrevByIndex : c.htPrevByIndex[k] = 0
    /\ DOMAIN c.htLastByHash = DOMAIN lz77.htLastByHash
    /\ DOMAIN c.htPrevByIndex = DOMAIN lz77.htPrevByIndex
    /\ \A f \in {"bsize", "wsize", "hashMask", "minLen", "maxLen", "maxDist",
                 "bbits", "wbits", "hbits"} : c[f] = lz77[f]
    /\ Clear(c) = c
    /\ c = InitLZ77(initCall.options)

\* C18 witness: a standard-mode engine with bytes in window and buffer and
\* entries in both hash arrays, after a shift, which Clear turns into the
\* freshly initialized engine.
ClearResetsWitness ==
    /\ shifted
    /\ lz77.hbits > 0
    /\ lz77.h < lz77.i /\ lz77.i < lz77.j
    /\ \E k \in DOMAIN lz77.htLastByHash : lz77.htLastByHash[k] # 0
    /\ \E k \in DOMAIN lz77.htPrevByIndex : lz77.htPrevByIndex[k] # 0
    /\ Clear(lz77) = InitLZ77(initCall.options)

\* C19: WindowClear empties only the window: afterwards h = i, every entry of
\* both hash arrays is zero, and i, j and the buffer bytes are unchanged, so
\* Read, ReadByte and Advance hand out the same buffered bytes as before.
WindowClearKeepsBuffer ==
    LET q == WindowClear(lz77) IN
    /\ q.h = q.i /\ q.i = lz77.i /\ q.j = lz77.j
    /\ WindowBytesView(q) = <<>>
    /\ BufferBytesView(q) = BufferBytesView(lz77)
    /\ \A k \in DOMAIN q.htLastByHash : q.htLastByHash[k] = 0
    /\ \A k \in DOMAIN q.htPrevByIndex : q.htPrevByIndex[k] = 0
    /\ \A length \in 0..MaxReq :
           LET r == Read(q, length) IN
           /\ r.data = SubSeq(BufferBytesView(lz77), 1, Min(length, Len77(lz77)))
           /\ (r.err = "ErrEmpty") = (length > 0 /\ lz77.i = lz77.j)
    /\ LET r == ReadByte(q) IN
           /\ (r.err = "ErrEmpty") = (lz77.i = lz77.j)
           /\ r.err = "nil" => r.ch = BufferBytesView(lz77)[1]
    /\ LET a == Advance(q) IN
           /\ a.buf = SubSeq(BufferBytesView(lz77), 1, Len(a.buf))
           /\ (lz77.i < lz77.j => Len(a.buf) = 1 /\ ~a.matchFound)

\* C19 witness: a standard-mode engine with bytes in window and buffer,
\* entries in its hash arrays and a match at the head of the buffer; after
\* WindowClear the same bytes are buffered and Advance returns a literal.
WindowClearKeepsBufferWitness ==
    /\ lz77.hbits > 0
    /\ lz77.h < lz77.i /\ lz77.i < lz77.j
    /\ \E k \in DOMAIN lz77.htLastByHash : lz77.htLastByHash[k] # 0
    /\ Advance(lz77).matchFound
    /\ ~Advance(WindowClear(lz77)).matchFound
    /\ BufferBytesView(WindowClear(lz77)) = BufferBytesView(lz77)

\* The options after clamping: maxLen to bufferSize, maxDist to windowSize,
\* the defaults filled in.
ClampedOptions(o) ==
    LET bsize == 2 ^ o.BufferNumBits
        wsize == 2 ^ o.WindowNumBits
    IN  [bsize   |-> bsize,
         wsize   |-> wsize,
         minLen  |-> IF o.HasMinMatchLength THEN o.MinMatchLength ELSE hashLen,
         maxLen  |-> IF o.HasMaxMatchLength THEN Min(o.MaxMatchLength, bsize) ELSE bsize,
         maxDist |-> IF o.HasMaxMatchDistance THEN Min(o.MaxMatchDistance, wsize) ELSE wsize,
         hbits   |-> o.HashNumBits]

\* An Init call has returned or panicked.
InitCalled == initCall.aborted \/ lz77 # ZeroLZ77

\* C20 as stated: the stored (minLen, maxLen, maxDist, hashBits) are the result
\* of the rules "if maxLen = 0 or maxDist = 0 then all four are 0; else if
\* minLen = 0 then minLen becomes 1; else if minLen < 4 then hashBits becomes
\* 0" applied to the clamped options, and Init aborts unless afterwards
\* minLen <= maxLen <= bufferSize and maxDist <= windowSize.
InitNormalizationElseIf ==
    InitCalled =>
        LET c == ClampedOptions(initCall.options)
            n == IF c.maxLen = 0 \/ c.maxDist = 0
                 THEN [c EXCEPT !.minLen = 0, !.maxLen = 0, !.maxDist = 0, !.hbits = 0]
                 ELSE IF c.minLen = 0 THEN [c EXCEPT !.minLen = 1]
                 ELSE IF c.minLen < hashLen THEN [c EXCEPT !.hbits = 0]
                 ELSE c
        IN  /\ initCall.aborted =
                  ~(n.minLen <= n.maxLen /\ n.maxLen <= c.bsize /\ n.maxDist <= c.wsize)
            /\ ~initCall.aborted =>
                   /\ lz77.minLen = n.minLen /\ lz77.maxLen = n.maxLen
                   /\ lz77.maxDist = n.maxDist /\ lz77.hbits = n.hbits

\* C20 amended: with the clamped options, literal mode (maxLen = 0 or
\* maxDist = 0) stores 0 for all four; otherwise maxLen and maxDist are stored
\* as clamped, minLen 0 is stored as 1, and hashBits is stored as 0 whenever
\* the stored minLen is below 4, also when it is the 1 that replaced 0.  Init
\* aborts exactly when an explicit MinMatchLength exceeds bufferSize or the
\* stored minLen would exceed the stored maxLen; otherwise
\* minLen <= maxLen <= bufferSize and maxDist <= windowSize.
InitNormalization ==
    InitCalled =>
        LET o       == initCall.options
            c       == ClampedOptions(o)
            lit     == (c.maxLen = 0 \/ c.maxDist = 0)
            minLen  == IF lit THEN 0 ELSE IF c.minLen = 0 THEN 1 ELSE c.minLen
            maxLen  == IF lit THEN 0 ELSE c.maxLen
            maxDist == IF lit THEN 0 ELSE c.maxDist
            hbits   == IF minLen < hashLen THEN 0 ELSE c.hbits
        IN  /\ initCall.aborted =
                  ((o.HasMinMatchLength /\ o.MinMatchLength > c.bsize) \/ minLen > maxLen)
            /\ ~initCall.aborted =>
                   /\ lz77.minLen = minLen /\ lz77.maxLen = maxLen
                   /\ lz77.maxDist = maxDist /\ lz77.hbits = hbits
                   /\ lz77.bsize = c.bsize /\ lz77.wsize = c.wsize
                   /\ minLen <= maxLen /\ maxLen <= c.bsize /\ maxDist <= c.wsize
                   /\ (lz77.htLastByHash # Nil) = (hbits # 0)

\* C20 witness: Init has returned for options with an explicit
\* MinMatchLength of 0, hash bits, and a non-zero maxLen and maxDist: the
\* engine stores minLen 1 and hashBits 0.
InitNormalizationWitness ==
    /\ InitCalled /\ ~initCall.aborted
    /\ initCall.options.HasMinMatchLength /\ initCall.options.MinMatchLength = 0
    /\ initCall.options.HashNumBits > 0
    /\ lz77.maxLen > 0 /\ lz77.maxDist > 0
    /\ lz77.minLen = 1 /\ lz77.hbits = 0

\* The values Advance returns (span, distance, length, matched).
AdvanceResult(r) == <<r.buf, r.matchDistance, r.matchLength, r.matchFound>>

\* C21: two engines made from the same options that differ only in the
\* 4-byte hash function, given the same calls, return the same Advance
\* result (span, distance, length, matched) at every step.
MixerIndependence ==
    AdvanceResult(Advance(lz77)) = AdvanceResult(AdvanceWith(twin.mixer, twin.lz))

\* C22: the byte sequence returned by WindowBytes or BufferBytes is a copy:
\* whatever mutating methods are called on the engine afterwards, the slice
\* the caller keeps still holds the bytes it held when it was returned.
BytesAreCopies == held.array # "none" => Deref(held, lz77) = held.was

\* C23: for a Buffer of 2^N bytes under WriteByte and ReadByte calls:
\* WriteByte returns ErrFull exactly when Len() = Cap(), and then leaves the
\* contents as they are, and otherwise appends its byte; ReadByte returns
\* ErrEmpty exactly when the Buffer is empty, and otherwise returns the
\* oldest byte; the bytes returned so far followed by the contents are the
\* bytes written, in the order written.
RingByteFIFO ==
    /\ got \o Buffer_Bytes(buffer) = put
    /\ Buffer_Len(buffer) = Len(Buffer_Bytes(buffer))
    /\ Buffer_Len(buffer) <= Buffer_Cap(buffer)
    /\ Buffer_Cap(buffer) = 2 ^ buffer.nbits
    /\ \A ch \in Alphabet :
           LET r == Buffer_WriteByte(buffer, ch) IN
           /\ r.err = "ErrFull" <=> Buffer_Len(buffer) = Buffer_Cap(buffer)
           /\ r.err = "ErrFull" => Buffer_Bytes(r.buffer) = Buffer_Bytes(buffer)
           /\ r.err = "nil" => Buffer_Bytes(r.buffer) = Append(Buffer_Bytes(buffer), ch)
    /\ LET r == Buffer_ReadByte(buffer) IN
           /\ r.err = "ErrEmpty" <=> Buffer_Len(buffer) = 0
           /\ r.err = "ErrEmpty" <=> Buffer_IsEmpty(buffer)
           /\ r.err = "ErrEmpty" => Buffer_Bytes(r.buffer) = Buffer_Bytes(buffer)
           /\ r.err = "nil" => <<r.ch>> \o Buffer_Bytes(r.buffer) = Buffer_Bytes(buffer)

\* C23 witness: more bytes than the Buffer holds have passed through it; it
\* is full, its contents wrap around the end of the array, and both indices
\* are the same and not zero.
RingByteFIFOWitness ==
    /\ Len(put) > Buffer_Cap(buffer)
    /\ got # <<>>
    /\ Buffer_IsFull(buffer)
    /\ buffer.a = buffer.b /\ buffer.a # 0
    /\ Buffer_WriteByte(buffer, 97).err = "ErrFull"
    /\ Buffer_ReadByte(buffer).ch = put[Len(got) + 1]

\* C24: in every reachable state, Write(p) with len(p) > 0 does not panic,
\* stores the first min(len(p), Cap() - Len()) bytes of p after the existing
\* contents and returns that count, and returns ErrFull exactly when len(p)
\* exceeds the free space; on a full Buffer it returns (0, ErrFull) and leaves
\* the contents unchanged.
RingWrite ==
    \A p \in SeqsUpTo(MaxWriteLen) \ {<<>>} :
        LET r     == Buffer_Write(buffer, p)
            bFree == Buffer_Cap(buffer) - Buffer_Len(buffer)
            n     == Min(Len(p), bFree)
        IN  /\ ~r.panic
            /\ r.n = n
            /\ Buffer_Bytes(r.buffer) = Buffer_Bytes(buffer) \o SubSeq(p, 1, n)
            /\ r.err = "ErrFull" <=> Len(p) > bFree
            /\ Buffer_IsFull(buffer) =>
                   /\ r.n = 0 /\ r.err = "ErrFull"
                   /\ Buffer_Bytes(r.buffer) = Buffer_Bytes(buffer)

\* C25: in every reachable state that is not full, PrepareBulkWrite(n)
\* returns a slice inside the backing array, and filling its first k bytes
\* and calling CommitBulkWrite(k), k <= len(slice), makes those k bytes the
\* newest contents: the contents become the older bytes followed by them.
RingBulkWrite ==
    ~Buffer_IsFull(buffer) =>
        \A length \in 0..MaxReq :
            LET w == Buffer_PrepareBulkWrite(buffer, length) IN
            /\ ~w.panic
            /\ ~w.isNil
            /\ w.off + w.len <= Buffer_Cap(buffer)
            /\ \A data \in SeqsUpTo(MaxWriteLen) :
                   Len(data) <= w.len =>
                       LET filled == [w.buffer EXCEPT
                                         !.slice = copyTo(w.buffer.slice, w.off,
                                                          w.off + w.len, data)]
                           r      == Buffer_CommitBulkWrite(filled, Len(data))
                       IN  /\ ~r.panic
                           /\ Buffer_Bytes(r.buffer) = Buffer_Bytes(buffer) \o data

\* The write methods that call shift, with the length they pass to it in the
\* current state: WriteByte (1), Write(data) and PrepareBulkWrite(n) (the
\* length clamped to the free space).
ShiftLengths(lz) ==
    {Min(n, free(lz)) : n \in 0..MaxReq}

\* C26: shift moves the contents only when j + n would exceed the region,
\* and then the window bytes and the buffer bytes are as before, i is
\* windowSize, h is windowSize - (old i - old h), j is windowSize + (old j -
\* old i), and the write fits: j + n <= len(region).
ShiftPreservesContents ==
    \A n \in ShiftLengths(lz77) :
        LET s == shift(lz77, n) IN
        /\ (s # lz77 => lz77.j + n > len(lz77))
        /\ (lz77.j + n <= len(lz77) => s = lz77)
        /\ lz77.j + n > len(lz77) =>
               /\ WindowBytesView(s) = WindowBytesView(lz77)
               /\ BufferBytesView(s) = BufferBytesView(lz77)
               /\ s.i = lz77.wsize
               /\ s.h = lz77.wsize - (lz77.i - lz77.h)
               /\ s.j = lz77.wsize + (lz77.j - lz77.i)
               /\ s.h >= 0
               /\ s.j + n <= len(s)
        /\ WindowBytesView(s) = WindowBytesView(lz77)
        /\ BufferBytesView(s) = BufferBytesView(lz77)

\* C26 witness: the region holds a full window and buffered bytes, and a
\* write of as many bytes as are free shifts it: the contents move down to
\* the start of the region.
ShiftPreservesContentsWitness ==
    LET n == Min(MaxReq, free(lz77)) IN
    /\ lz77.i - lz77.h = lz77.wsize /\ lz77.wsize > 0
    /\ lz77.i < lz77.j
    /\ n >= 2
    /\ shiftNeeded(lz77, n)
    /\ shift(lz77, n).h = 0
    /\ shift(lz77, n).i < lz77.i
    /\ shift(lz77, n).j + n <= len(lz77)

RECURSIVE ChainFrom(_, _, _)
\* The positions advanceStandard visits from the entry currPlusOne on: its
\* loop runs while currPlusOne > h and currPlusOne < lastPlusOne, and goes on
\* with htPrevByIndex[curr].
ChainFrom(lz, currPlusOne, lastPlusOne) ==
    IF ~(currPlusOne > lz.h /\ currPlusOne < lastPlusOne) THEN <<>>
    ELSE <<currPlusOne - 1>>
         \o ChainFrom(lz, lz.htPrevByIndex[currPlusOne - 1], currPlusOne)

\* The chain of a hash: the window positions reached from htLastByHash[hash].
Chain(lz, hash) == ChainFrom(lz, lz.htLastByHash[hash], lz.i + 1)

\* C27: when a write shifts the region of an engine with hash tables, the
\* chain of every hash after the shift is its chain before the shift with
\* every position decreased by delta = old h - new h, and the entries of both
\* arrays that stand for positions outside the old window are 0 afterwards.
ShiftRelocatesIndex ==
    lz77.hbits # 0 =>
        \A n \in ShiftLengths(lz77) :
            shiftNeeded(lz77, n) =>
                LET s     == shift(lz77, n)
                    delta == lz77.h - s.h
                IN  /\ \A hash \in DOMAIN lz77.htLastByHash :
                           Chain(s, hash) =
                               [k \in 1..Len(Chain(lz77, hash)) |->
                                    Chain(lz77, hash)[k] - delta]
                    /\ \A hash \in DOMAIN s.htLastByHash :
                           s.htLastByHash[hash] # 0 =>
                               /\ s.htLastByHash[hash] > s.h
                               /\ s.htLastByHash[hash] <= s.i
                    /\ \A index \in DOMAIN s.htPrevByIndex :
                           s.htPrevByIndex[index] # 0 =>
                               /\ index >= s.h /\ index < s.i
                               /\ s.htPrevByIndex[index] > s.h
                               /\ s.htPrevByIndex[index] <= s.i

\* The window positions whose four bytes are all committed (below j).
HashedPositions(lz) == {p \in WindowPositions(lz) : p + hashLen <= lz.j}

\* The hash of the four bytes at position p.
HashAt(lz, p) == hash4(SubSlice(lz.slice, p, p + hashLen), lz.hashMask)

\* How often position p occurs in a sequence of positions.
Occurrences(chain, p) == Cardinality({k \in 1..Len(chain) : chain[k] = p})

\* C28: in standard mode, after every public operation, every window
\* position with four committed bytes occurs exactly once in the chain of the
\* hash of those bytes, and every chain lists its positions from the most
\* recent to the least recent.
IndexComplete ==
    lz77.hbits # 0 =>
        /\ \A p \in HashedPositions(lz77) :
               Occurrences(Chain(lz77, HashAt(lz77, p)), p) = 1
        /\ \A hash \in DOMAIN lz77.htLastByHash :
               \A k \in 1..(Len(Chain(lz77, hash)) - 1) :
                   Chain(lz77, hash)[k] > Chain(lz77, hash)[k + 1]

\* C29: in standard mode, after every public operation, every position
\* reached by walking from a non-zero htLastByHash[hash] through
\* htPrevByIndex, down to h, is below i, its four bytes are committed bytes
\* (below j), and they hash to that hash.
IndexSound ==
    lz77.hbits # 0 =>
        \A hash \in DOMAIN lz77.htLastByHash :
            \A k \in 1..Len(Chain(lz77, hash)) :
                LET p == Chain(lz77, hash)[k] IN
                /\ p >= lz77.h /\ p < lz77.i
                /\ p + hashLen <= lz77.j
                /\ HashAt(lz77, p) = hash

RECURSIVE LinksFrom(_, _, _)
\* The positions reached from the entry currPlusOne by following
\* htPrevByIndex for as long as the entries stand for positions at or above
\* h, whatever their order (at most fuel of them).
LinksFrom(lz, currPlusOne, fuel) ==
    IF ~(currPlusOne > lz.h) \/ fuel = 0 THEN <<>>
    ELSE <<currPlusOne - 1>>
         \o LinksFrom(lz, lz.htPrevByIndex[currPlusOne - 1], fuel - 1)

ConfigsSmall ==
    { Opt(2, 0, 1, 0, FALSE, 0, FALSE, 0, FALSE),   \* wsize 1: minLen 4, maxLen 4, maxDist 1
      Opt(2, 1, 1, 0, FALSE, 0, FALSE, 0, FALSE) }  \* wsize 2: minLen 4, maxLen 4, maxDist 2

InitSmall == InitFor(ConfigsSmall)

SpecSmall == InitSmall /\ [][Next]_vars

RECURSIVE windowUpdateVisits(_, _)
\* The values index takes in the body of the for loop of windowUpdateRegion.
windowUpdateVisits(index, end) ==
    IF ~Lt32(index, end) THEN {}
    ELSE {index} \cup windowUpdateVisits(index + 1, end)

\* The positions windowUpdateRegion(index) enters in the hash tables.
windowUpdateInserts(lz, index) ==
    IF lz.htLastByHash = Nil THEN {}
    ELSE LET index1 == IF Lt32(index, lz.h) THEN lz.h ELSE index
             end0   == Sub32(lz.j, hashLenSubOne)
             end    == IF Lt32(lz.i, end0) THEN lz.i ELSE end0
         IN  windowUpdateVisits(index1, end)

\* The engine as a write method has it when it calls windowUpdateRegion,
\* after it has stored n bytes (their values do not matter here).
AfterStore(lz, n) ==
    LET lz1 == shift(lz, n)
    IN  [lz1 EXCEPT !.j = lz1.j + n]

\* C31: every position at the head of a chain was entered with its four
\* bytes below j (p < i and p + 4 <= j), and a write of n bytes enters every
\* window position p whose fourth byte it stores (j < p + 4 <= j + n), also
\* when j - 3 wraps.
InsertionBound ==
    lz77.htLastByHash # Nil =>
        /\ \A hash \in DOMAIN lz77.htLastByHash :
               LET p == lz77.htLastByHash[hash] - 1
               IN  lz77.htLastByHash[hash] # 0 =>
                       p < lz77.i /\ p + hashLen <= lz77.j
        /\ \A n \in 0..Min(MaxReq, free(lz77)) :
               LET lz1 == shift(lz77, n)
                   lz2 == AfterStore(lz77, n)
                   ins == windowUpdateInserts(lz2, Sub32(lz1.j, hashLenSubOne))
               IN  /\ \A p \in ins : p < lz2.i /\ p + hashLen <= lz2.j
                   /\ \A p \in lz2.h..(lz2.i - 1) :
                          (lz1.j < p + hashLen /\ p + hashLen <= lz2.j) => p \in ins

ReadPositions(lz, n) ==
    {p \in lz.i..(lz.i + n - 1) :
        p >= slideWindow(lz, lz.i + n) /\ p + hashLen <= lz.j}

\* The largest element of a non-empty set of numbers.
Largest(S) == CHOOSE x \in S : \A y \in S : y <= x

InitRefine ==
    /\ \E o \in {c \in ConfigsWords : InitOK(c)} :
           /\ lz77 = InitLZ77(o)
           /\ initCall = [options |-> o, aborted |-> FALSE]
           /\ twin = [mixer |-> "hash4", lz |-> InitLZ77([o EXCEPT !.HashNumBits = 0])]
    /\ written = <<>>
    /\ delivered = <<>>
    /\ expanded = <<>>
    /\ shifted = FALSE
    /\ matchedLate = FALSE
    /\ held = NoHeld
    /\ buffer = ZeroBuffer
    /\ put = <<>>
    /\ got = <<>>

SpecRefine == InitRefine /\ [][NextMixer]_vars

\* C33: an engine in standard mode and an engine in non-hashed mode with the
\* same bufferBits, windowBits, minLen, maxLen and maxDist, given the same
\* calls, hold the same window and buffer bytes and return the same Advance
\* result (span, distance, length, matched) at every step.
HashRefinesLinear ==
    /\ lz77.hbits # 0 /\ twin.lz.hbits = 0
    /\ lz77.minLen = twin.lz.minLen /\ lz77.maxLen = twin.lz.maxLen
    /\ lz77.maxDist = twin.lz.maxDist
    /\ WindowBytesView(lz77) = WindowBytesView(twin.lz)
    /\ BufferBytesView(lz77) = BufferBytesView(twin.lz)
    /\ AdvanceResult(Advance(lz77)) = AdvanceResult(Advance(twin.lz))

\* --------------------------------------- what Advance examines and hashes
RECURSIVE checkMatchLoopReads(_, _, _, _)
\* The region positions the for loop of advanceCheckMatch reads, from index.
checkMatchLoopReads(lz, curr, maxLen, index) ==
    IF ~(index < maxLen) THEN {}
    ELSE {curr + index, lz.i + index}
         \cup (IF lz.slice[curr + index] = lz.slice[lz.i + index]
               THEN checkMatchLoopReads(lz, curr, maxLen, index + 1)
               ELSE {})

\* The region positions one call of advanceCheckMatch reads.
advanceCheckMatchReads(lz, curr, maxLen, best) ==
    IF best.bestFound
    THEN {curr + best.bestLength, lz.i + best.bestLength}
         \cup (IF lz.slice[curr + best.bestLength] # lz.slice[lz.i + best.bestLength]
               THEN {}
               ELSE checkMatchLoopReads(lz, curr, maxLen, 0))
    ELSE checkMatchLoopReads(lz, curr, maxLen, 0)

RECURSIVE noHashVisits(_, _, _, _)
\* The calls of advanceCheckMatch made by the loop of advanceNoHash: the
\* candidate, the length limit and the best match on entry, in the order of
\* the calls.
noHashVisits(lz, curr, maxLen, best) ==
    IF ~(curr > lz.h) THEN <<>>
    ELSE LET r == advanceCheckMatch(lz, curr - 1, maxLen, best)
         IN  <<[curr |-> curr - 1, maxLen |-> maxLen, best |-> best]>>
             \o (IF r.stop THEN <<>> ELSE noHashVisits(lz, curr - 1, maxLen, r.best))

RECURSIVE standardVisits(_, _, _, _, _)
\* The same for the chain loop of advanceStandard.
standardVisits(lz, currPlusOne, lastPlusOne, maxLen, best) ==
    IF ~(currPlusOne > lz.h /\ currPlusOne < lastPlusOne) THEN <<>>
    ELSE LET curr == currPlusOne - 1
             r    == advanceCheckMatch(lz, curr, maxLen, best)
         IN  <<[curr |-> curr, maxLen |-> maxLen, best |-> best]>>
             \o (IF r.stop THEN <<>>
                 ELSE standardVisits(lz, lz.htPrevByIndex[curr], currPlusOne, maxLen, r.best))

\* Mutant of AdvanceVisits: maxLen is not reduced to the buffered length.
AdvanceVisitsUncapped(lz) ==
    IF lz.maxLen = 0 \/ lz.i + 1 > lz.j THEN <<>>
    ELSE LET maxLen == lz.maxLen
         IN  IF ~(lz.minLen <= maxLen) THEN <<>>
             ELSE IF lz.hbits = 0 THEN noHashVisits(lz, lz.i, maxLen, NoBest)
             ELSE standardVisits(lz,
                      lz.htLastByHash[hash4(SubSlice(lz.slice, lz.i, lz.i + hashLen),
                                            lz.hashMask)],
                      lz.i + 1, maxLen, NoBest)

\* The candidates Advance examines.
AdvanceVisits(lz) ==
    IF lz.maxLen = 0 \/ lz.i + 1 > lz.j THEN <<>>
    ELSE LET maxLen == Min(lz.maxLen, lz.j - lz.i)
         IN  IF ~(lz.minLen <= maxLen) THEN <<>>
             ELSE IF lz.hbits = 0 THEN noHashVisits(lz, lz.i, maxLen, NoBest)
             ELSE standardVisits(lz,
                      lz.htLastByHash[hash4(SubSlice(lz.slice, lz.i, lz.i + hashLen),
                                            lz.hashMask)],
                      lz.i + 1, maxLen, NoBest)

\* The positions p whose four bytes slice[p:p+4] Advance passes to hash4: the
\* lookup of advanceStandard and the positions windowUpdateRegion(i) enters.
AdvanceHashes(lz) ==
    IF lz.i + 1 > lz.j THEN {}
    ELSE (IF lz.maxLen # 0 /\ lz.hbits # 0 /\ lz.minLen <= Min(lz.maxLen, lz.j - lz.i)
          THEN {lz.i} ELSE {})
         \cup windowUpdateInserts(Advance(lz).lz, lz.i)

\* C34: in standard and non-hashed mode, when the buffer is not empty and
\* min(maxLen, j - i) < minLen, Advance examines no candidate, hashes no
\* bytes at or beyond j, and returns the single byte at i with distance 0,
\* length 0 and matchFound = FALSE, moving i forward by 1.
ShortBufferLiteral ==
    (lz77.maxLen # 0 /\ 0 < lz77.j - lz77.i
        /\ Min(lz77.maxLen, lz77.j - lz77.i) < lz77.minLen) =>
        LET r == Advance(lz77)
        IN  /\ AdvanceVisits(lz77) = <<>>
            /\ \A p \in AdvanceHashes(lz77) : p + hashLen <= lz77.j
            /\ AdvanceResult(r) = << <<lz77.slice[lz77.i]>>, 0, 0, FALSE >>
            /\ r.lz.i = lz77.i + 1
            /\ r.lz.j = lz77.j
            /\ r.lz.slice = lz77.slice

\* C35: with a normalized maxLen of 0 (literal-only mode) the window is
\* empty (h = i) after every operation, and every Advance on a non-empty
\* buffer returns exactly the byte at i with matchFound = FALSE, distance 0
\* and length 0, and moves i forward by 1.
LiteralOnly ==
    lz77.maxLen = 0 =>
        /\ lz77.h = lz77.i
        /\ WindowBytesView(lz77) = <<>>
        /\ lz77.i < lz77.j =>
               LET r == Advance(lz77)
               IN  /\ AdvanceResult(r) = << <<lz77.slice[lz77.i]>>, 0, 0, FALSE >>
                   /\ r.lz.i = lz77.i + 1
                   /\ r.lz.h = r.lz.i
                   /\ r.lz.j = lz77.j
                   /\ BufferBytesView(lz77) = r.buf \o BufferBytesView(r.lz)

\* C35 witness: a literal-only engine after a shift and at least one
\* delivered byte, with a byte buffered; Advance returns that byte.
LiteralOnlyWitness ==
    /\ lz77.maxLen = 0
    /\ shifted
    /\ delivered # <<>>
    /\ lz77.j - lz77.i >= 1
    /\ Len(Advance(lz77).buf) = 1
    /\ Advance(lz77).lz.h = lz77.i + 1

\* ------------------------------------------- Init, then the methods (C36)
\* A new engine, one Init call over options that take every branch of the
\* normalisation, then every public method.
\* Bytes accepted since Init/Clear before the writer stops.
MaxWrittenModes == 5

OptModes ==
    { Opt(2, 1, 1, 0, FALSE, 0, FALSE, 0, FALSE),   \* defaults: standard mode
      Opt(2, 1, 0, 0, FALSE, 0, FALSE, 0, FALSE),   \* no hash bits: non-hashed
      Opt(2, 1, 1, 3, TRUE, 0, FALSE, 0, FALSE),    \* minLen 3 < hashLen: hash bits dropped
      Opt(2, 1, 1, 0, TRUE, 3, TRUE, 1, TRUE),      \* minLen 0 raised to 1
      Opt(2, 1, 1, 4, TRUE, 9, TRUE, 5, TRUE),      \* maxLen and maxDist clamped
      Opt(2, 1, 1, 0, FALSE, 0, TRUE, 0, FALSE),    \* maxLen 0: literal-only
      Opt(2, 1, 1, 3, TRUE, 3, TRUE, 0, TRUE),      \* maxDist 0: literal-only
      Opt(2, 1, 1, 5, TRUE, 0, FALSE, 0, FALSE),    \* minLen above the buffer size: Init panics
      Opt(2, 1, 1, 0, FALSE, 3, TRUE, 0, FALSE) }   \* minLen 4 > maxLen 3: Init panics

InitModesCall ==
    \E o \in OptModes :
        /\ lz77 = ZeroLZ77
        /\ ~initCall.aborted
        /\ initCall' = [options |-> o, aborted |-> ~InitOK(o)]
        /\ lz77' = IF InitOK(o) THEN InitLZ77(o) ELSE lz77
        /\ UNCHANGED <<written, delivered, expanded, shifted, matchedLate, twin, held, ringVars>>

NextModes ==
    \/ InitModesCall
    \/ /\ lz77 # ZeroLZ77
       /\ \/ ClearCall
          \/ WindowClearCall
          \/ SetWindowCall
          \/ WriteByteCall(MaxWrittenModes)
          \/ WriteCall(MaxWrittenModes, SeqsUpTo(MaxWriteLen))
          \/ BulkWriteCall(MaxWrittenModes)
          \/ PrepareBulkWriteCall
          \/ BulkReadCall
          \/ ReadByteCall
          \/ ReadCall
          \/ AdvanceCall(FALSE)

SpecModes == InitNew /\ [][NextModes]_vars

\* The assertions of Advance on the configuration (those on h, i, j are
\* AdvanceIndexAsserts).
AdvanceConfigAsserts(lz) ==
    /\ IF lz.maxLen = 0
       THEN /\ lz.minLen = 0
            /\ lz.maxDist = 0
            /\ lz.hbits = 0
       ELSE /\ lz.minLen > 0
            /\ lz.maxDist > 0
            /\ lz.minLen <= lz.maxLen
            /\ lz.maxLen <= lz.bsize
            /\ lz.maxDist <= lz.wsize
    /\ IF lz.hbits = 0
       THEN /\ lz.htLastByHash = Nil
            /\ lz.htPrevByIndex = Nil
       ELSE /\ lz.minLen >= hashLen
            /\ lz.htLastByHash # Nil
            /\ lz.htPrevByIndex # Nil

\* C36: after a successful Init and any sequence of public methods the
\* configuration assertions of Advance pass: maxLen = 0 implies minLen = 0,
\* maxDist = 0 and hbits = 0; maxLen > 0 implies 0 < minLen <= maxLen <= bsize
\* and 0 < maxDist <= wsize; the hash arrays exist exactly when hbits > 0; and
\* hbits > 0 implies minLen >= 4, so Advance takes advanceStandard only then.
ModeConsistent ==
    lz77 # ZeroLZ77 =>
        /\ AdvanceConfigAsserts(lz77)
        /\ (lz77.htLastByHash # Nil) = (lz77.hbits > 0)
        /\ (lz77.htPrevByIndex # Nil) = (lz77.hbits > 0)
        /\ (lz77.maxLen # 0 /\ lz77.hbits # 0) => lz77.minLen >= hashLen
        /\ lz77.hbits > 0 =>
               /\ DOMAIN lz77.htLastByHash = 0..(2 ^ lz77.hbits - 1)
               /\ DOMAIN lz77.htPrevByIndex = DOMAIN lz77.slice

\* C36 witness: Init was asked for hash bits with a MinMatchLength of 3 and
\* made a non-hashed engine, which has since shifted and delivered bytes.
ModeConsistentWitness ==
    /\ initCall.options.HashNumBits > 0
    /\ initCall.options.HasMinMatchLength
    /\ initCall.options.MinMatchLength = 3
    /\ lz77 # ZeroLZ77
    /\ lz77.hbits = 0 /\ lz77.minLen = 3 /\ lz77.maxLen > 0
    /\ shifted
    /\ delivered # <<>>
    /\ AdvanceConfigAsserts(lz77)

\* ------------------------------------- arbitrary hash tables (C37)
\* A standard-mode engine (bufferBits 3, windowBits 2: minLen 4, maxLen 8,
\* maxDist 4) holding a window and a buffer, whose two hash tables hold
\* arbitrary values: nil, positions-plus-one at and below h, inside the
\* window and above i, and 2^31 - 1, a value far above the region.
WalkOptions == Opt(3, 2, 1, 0, FALSE, 0, FALSE, 0, FALSE)
WalkWindows == { <<98, 97, 98>>, <<97, 98, 97>> }
WalkBuffers == { <<97, 98, 97, 98, 97, 97, 98, 98>>, <<97, 98, 97, 98, 98>>, <<97, 98, 97>> }
WalkValues == {0, 1, 2, 3, 4, 5, 2147483647}

InitWalk ==
    /\ \E w \in WalkWindows, b \in WalkBuffers, v \in WalkValues :
       \E f \in [1..Len(w) -> WalkValues] :
           LET lz == InitLZ77(WalkOptions)
               i  == lz.wsize
               h  == i - Len(w)
               j  == i + Len(b)
           IN  lz77 = [lz EXCEPT
                   !.h = h, !.j = j,
                   !.slice = [k \in DOMAIN lz.slice |->
                                 IF k >= h /\ k < i THEN w[k - h + 1]
                                 ELSE IF k >= i /\ k < j THEN b[k - i + 1]
                                 ELSE 0],
                   !.htLastByHash = [hash \in DOMAIN lz.htLastByHash |-> v],
                   !.htPrevByIndex = [k \in DOMAIN lz.htPrevByIndex |->
                                         IF k >= h /\ k < i THEN f[k - h + 1] ELSE v]]
    /\ initCall = [options |-> WalkOptions, aborted |-> FALSE]
    /\ written = <<>>
    /\ delivered = <<>>
    /\ expanded = <<>>
    /\ shifted = FALSE
    /\ matchedLate = FALSE
    /\ EngineOnly

NextWalk == AdvanceCall(FALSE)

SpecWalk == InitWalk /\ [][NextWalk]_vars

\* C37: whatever htLastByHash and htPrevByIndex hold, the chain walk of
\* advanceStandard ends: it checks at most i - h candidates, each at a
\* position in [h, i) and each below the one before, and every call of
\* advanceCheckMatch reads only region positions below j.
WalkBounded ==
    LET vis == AdvanceVisits(lz77)
    IN  /\ Len(vis) <= lz77.i - lz77.h
        /\ \A k \in 1..Len(vis) :
               /\ vis[k].curr >= lz77.h
               /\ vis[k].curr < lz77.i
               /\ k > 1 => vis[k].curr < vis[k - 1].curr
               /\ \A p \in advanceCheckMatchReads(lz77, vis[k].curr, vis[k].maxLen,
                                                  vis[k].best) :
                      p >= 0 /\ p < lz77.j

\* C37 witness: tables that do not describe the window (an entry of a
\* window position is above i) and a walk that checks every window position,
\* three of them, the later ones with a best match already found.
WalkBoundedWitness ==
    /\ lz77.hbits # 0
    /\ lz77.i - lz77.h = 3
    /\ Len(AdvanceVisits(lz77)) = 3
    /\ \E k \in lz77.h..(lz77.i - 1) : lz77.htPrevByIndex[k] > lz77.i
    /\ \E k \in 1..3 : AdvanceVisits(lz77)[k].best.bestFound

\* C38: in every reachable state i >= wsize >= maxDist and the window is at
\* most maxDist bytes long, so none of the uint32 differences that place the
\* window start wraps (a wrapped value is negative here): iPrime - maxDist
\* in Advance, ReadByte, Read and CommitBulkRead, i - length in SetWindow
\* and iPrime - windowLen in shift; and h never exceeds i.
NoWindowUnderflow ==
    /\ lz77.i >= lz77.wsize
    /\ lz77.wsize >= lz77.maxDist
    /\ lz77.h >= 0
    /\ lz77.h <= lz77.i
    /\ lz77.i - lz77.h <= lz77.maxDist
    /\ \A iPrime \in lz77.i..lz77.j :
           /\ Sub32(iPrime, lz77.maxDist) >= 0
           /\ slideWindow(lz77, iPrime) >= lz77.h
           /\ slideWindow(lz77, iPrime) <= iPrime
    /\ LET r == Advance(lz77).lz IN r.h >= 0 /\ r.h <= r.i
    /\ LET r == ReadByte(lz77).lz IN r.h >= 0 /\ r.h <= r.i
    /\ \A length \in 0..MaxReq :
           LET r == Read(lz77, length).lz IN r.h >= 0 /\ r.h <= r.i
    /\ \A length \in 0..Min(MaxReq, Len77(lz77)) :
           LET r == CommitBulkRead(lz77, length) IN r.h >= 0 /\ r.h <= r.i
    /\ \A data \in WindowData \cup SeqsUpTo(MaxWriteLen) :
           LET r == SetWindow(lz77, data)
           IN  /\ Sub32(lz77.i, Min(Len(data), lz77.maxDist)) >= 0
               /\ r.h >= 0 /\ r.h <= r.i
    /\ \A n \in ShiftLengths(lz77) :
           LET r == shift(lz77, n)
           IN  /\ Sub32(lz77.wsize, lz77.i - lz77.h) >= 0
               /\ r.h >= 0 /\ r.h <= r.i /\ r.i >= r.wsize

\* C38 witness: after a shift, a full window that starts at position 0
\* (i = wsize = maxDist, h = 0) and a non-empty buffer: iPrime - maxDist is 1
\* for the next byte removed and i - length is 0 in SetWindow.
NoWindowUnderflowWitness ==
    /\ shifted
    /\ lz77.maxDist > 0
    /\ lz77.maxDist = lz77.wsize
    /\ lz77.h = 0
    /\ lz77.i = lz77.wsize
    /\ lz77.i < lz77.j
    /\ ReadByte(lz77).lz.h = 1
    /\ \E data \in WindowData : SetWindow(lz77, data).h = 0

\* --------------------------------------- the largest engines (C39)
\* Engines with bufferBits and windowBits of 28 to 30, whose indexes come
\* close to 2^32.  Every quantity of these engines is counted in blocks of
\* 2^28 bytes, and every call moves whole blocks: the sizes are 2^(bits - 28)
\* blocks, a slice element stands for one block, and uint32 arithmetic is
\* arithmetic modulo 2^32 / 2^28 = 16 blocks.  The methods used never look
\* inside a block, so the scaled engine takes the steps of the real one.
BlockBits == 28
WordBlocks == 2 ^ (32 - BlockBits)
WideBits == {28, 29, 30}
\* Blocks accepted since Init before the writer stops.
MaxWrittenWide == 12

\* uint32 addition, in blocks.
Add32Wrap(a, b) == (a + b) % WordBlocks

\* shift with the sum k := j + n computed in uint32.
shiftWrap(lz, n) ==
    IF Add32Wrap(lz.j, n) <= len(lz) THEN lz
    ELSE shift(lz, n)

\* Write with the sums j + n and j + length computed in uint32; the slice
\* expression slice[j:jPrime] panics when its bounds are out of order or
\* past the length of the region.
WriteWrap(lz, data) ==
    LET y      == free(lz)
        length == Min(Len(data), y)
        err    == IF Len(data) > y THEN "ErrFull" ELSE "nil"
        data1  == SubSeq(data, 1, length)
        lz1    == shiftWrap(lz, length)
        j      == lz1.j
        jPrime == Add32Wrap(j, length)
        panic  == jPrime < j \/ jPrime > len(lz1)
        lz2    == [lz1 EXCEPT !.slice = copyInto(lz1.slice, j, data1), !.j = jPrime]
    IN  IF panic THEN [lz |-> lz1, n |-> 0, err |-> "panic", panic |-> TRUE]
        ELSE [lz |-> windowUpdateRegion(lz2, Sub32(j, hashLenSubOne)),
              n |-> length, err |-> err, panic |-> FALSE]

\* n blocks of data.
Blocks(n) == [k \in 1..n |-> 97]

InitWide ==
    /\ \E bb \in WideBits, wb \in WideBits :
           /\ lz77 = InitLZ77(Opt(bb - BlockBits, wb - BlockBits, 0,
                                  1, TRUE, 0, FALSE, 0, FALSE))
           /\ initCall = [options |-> Opt(bb, wb, 0, 1, TRUE, 0, FALSE, 0, FALSE),
                          aborted |-> FALSE]
    /\ written = <<>>
    /\ delivered = <<>>
    /\ expanded = <<>>
    /\ shifted = FALSE
    /\ matchedLate = FALSE
    /\ EngineOnly

\* Write of 1 to bsize blocks; a call that panics is not a step.
WriteWideCall ==
    \E n \in 1..lz77.bsize :
        LET r == WriteWrap(lz77, Blocks(n)) IN
        /\ ~r.panic
        /\ Len(written) + n <= MaxWrittenWide
        /\ lz77' = r.lz
        /\ written' = written \o SubSeq(Blocks(n), 1, r.n)
        /\ shifted' = (shifted \/ (Add32Wrap(lz77.j, r.n) > len(lz77)))
        /\ UNCHANGED <<delivered, expanded, matchedLate, initCall, twin, held, ringVars>>

\* Read into a destination no longer than the buffered data.
ReadWideCall ==
    \E length \in 1..Len77(lz77) :
        LET r == Read(lz77, length) IN
        /\ lz77' = r.lz
        /\ delivered' = delivered \o r.data
        /\ UNCHANGED <<written, expanded, shifted, matchedLate, initCall, twin, held, ringVars>>

NextWide ==
    \/ WriteWideCall
    \/ ReadWideCall

SpecWide == InitWide /\ [][NextWide]_vars

\* C39: for every permitted configuration and every reachable state, the
\* uint32 sum j + n that shift computes for a write of n <= bsize - (j - i)
\* bytes does not wrap, so a write that would pass the end of the region
\* triggers a shift and no write indexes the region past its length.
ShiftSumNoWrap ==
    \A n \in 0..free(lz77) :
        /\ lz77.j + n < WordBlocks
        /\ lz77.j + n > len(lz77) => Add32Wrap(lz77.j, n) > len(lz77)
        /\ ~WriteWrap(lz77, Blocks(n)).panic
====
